---------------------------- MODULE Spec2Model ----------------------------
(***************************************************************************)
(* A model of the gloomhaven-engine core:                                  *)
(*   - engine/core/hex.ts : axial hex geometry, A* path finding            *)
(*   - store/gameStore.ts : the game store (scenario, characters, element  *)
(*                          tracker)                                       *)
(* Hexes are records [q, r]; map keys (the strings "q,r" of hexToKey) are  *)
(* pairs <<q, r>>.                                                         *)
(***************************************************************************)
EXTENDS Integers, Sequences, FiniteSets, TLC

VARIABLES
    \* ---- store/gameStore.ts : gameState ----
    gamePhase,      \* gameState.gamePhase
    scenario,       \* gameState.scenario : a scenario record or Null
    characters,     \* gameState.characters : id -> character, on the ids added
    lastCall,       \* the store operation called last, its argument and return value
    sinceInfuse,    \* history: element -> waneElements calls since its last
                    \* infuseElement, on the elements infused and not consumed since
    campaign,       \* gameState.campaign
    party,          \* gameState.party
    replaced,       \* history: the element tracker of the scenario that the last
                    \* startScenario or endScenario call replaced or ended, or Null
    turnsTaken,     \* history: nextTurn calls since the initiative order was set
    \* ---- engine/core/hex.ts : one call of findPath ----
    fpStart, fpGoal, fpMap, fpOptions, fpResult,
    fpTrace,        \* history: the iterations of the search loop of that call
    fpAgain,        \* the result of a second call with the same arguments
    fpSearch,       \* that call taken one loop iteration at a time: where it
                    \* stands (pc), its open set, parents and scores, and the
                    \* number of iterations done
    \* ---- engine/core/hex.ts : one call of getHexRing ----
    ringCenter, ringRadius, ringResult,
    \* ---- engine/core/hex.ts : one call of hasLineOfSight or getValidTargets ----
    sightFrom, sightTo, sightRange, sightMap, sightResult,
    \* ---- engine/core/hex.ts : one call of a basic hex operation ----
    geoA, geoB, geoN, geoResult,
    \* ---- docs/TECHNICAL_SPEC.md : one figure's attack modifier deck ----
    deck,           \* the AttackModifierDeck, or Null
    drawing         \* one call of drawAttackModifiers: where it stands (pc), the
                    \* draws it has left, the cards drawn, and whether a draw of
                    \* it found the draw pile empty (refilled)

storeVars == <<gamePhase, scenario, characters, lastCall, sinceInfuse>>
campaignVars == <<campaign, party, replaced, turnsTaken>>
pathVars  == <<fpStart, fpGoal, fpMap, fpOptions, fpResult, fpTrace, fpAgain, fpSearch>>
ringVars  == <<ringCenter, ringRadius, ringResult>>
sightVars == <<sightFrom, sightTo, sightRange, sightMap, sightResult>>
geoVars   == <<geoA, geoB, geoN, geoResult>>
deckVars  == <<deck, drawing>>
vars      == <<storeVars, campaignVars, pathVars, ringVars, sightVars, geoVars, deckVars>>

(***************************************************************************)
(* Bounds of the model                                                     *)
(***************************************************************************)
MaxLevel    == 1    \* characters are added with level 1..MaxLevel
MaxPartyLen == 2    \* startScenario is called with at most this many party ids
MaxWanes    == 2    \* sinceInfuse saturates here
BoardSize   == 3    \* findPath boards hold the hexes q, r \in 0..BoardSize-1
MaxRange    == 2    \* findPath is called with options.range \in 1..MaxRange
MaxRadius   == 3    \* getHexRing is called with radius \in 0..MaxRadius
MaxCoord    == 2    \* getHexRing is called with center q, r \in -MaxCoord..MaxCoord
MaxRound    == 3    \* endRound is called while scenario.round < MaxRound
MaxChange   == 3    \* reputation and prosperity change by -MaxChange..MaxChange, or by 41
MaxProsperity == 4  \* updateProsperity is called while the sum stays <= MaxProsperity
MaxDeck     == 3    \* a deck starts with 1..MaxDeck cards
MaxTurns    == 3    \* nextTurn calls counted after an initiative order is set

\* the number format of the source: 53 significant bits (IEEE 754 binary64)
SignificandBits == 53
\* the width of one limb of the fixed point numbers that carry the doubles
LimbBits == 22

Null      == [null |-> TRUE]   \* null / undefined where an object is expected
Undefined == "undefined"       \* undefined where a string is expected
NaN       == -1000000          \* the number NaN (no other number of the model is negative)
Infinity  == 1000000           \* the number Infinity (above every cost of the model)
Void      == "void"            \* a call that returns nothing
Pending   == [pending |-> TRUE]   \* the result of a pure function not called yet
Returned(v) == [value |-> v]      \* the value a pure function returned

Abs(x)    == IF x < 0 THEN -x ELSE x
Max(a, b) == IF a > b THEN a ELSE b
Min(a, b) == IF a < b THEN a ELSE b
Hex(q, r) == [q |-> q, r |-> r]
Range(seq) == {seq[i] : i \in 1..Len(seq)}

(***************************************************************************)
(* engine/core/hex.ts : basic hex operations                               *)
(***************************************************************************)
\* a number that is not an integer: num / den
Fraction(num, den) == [num |-> num, den |-> den]

\* n / 2 on numbers: an integer for an even n, a fraction otherwise
halve(n) == IF n % 2 = 0 THEN n \div 2 ELSE Fraction(n, 2)

\* a variant of hexDistanceSum that forgets Math.abs on the r difference
hexDistanceSumSignedR(hex1, hex2) ==
    Abs(hex1.q - hex2.q)
    + Abs(hex1.q + hex1.r - hex2.q - hex2.r)
    + (hex1.r - hex2.r)

\* a variant of hexDistanceSum without the q + r difference
hexDistanceSumNoDiagonal(hex1, hex2) ==
    Abs(hex1.q - hex2.q) + Abs(hex1.r - hex2.r)

\* the sum hexDistance divides by 2
hexDistanceSum(hex1, hex2) ==
    Abs(hex1.q - hex2.q)
    + Abs(hex1.q + hex1.r - hex2.q - hex2.r)
    + Abs(hex1.r - hex2.r)

hexDistance(hex1, hex2) == halve(hexDistanceSum(hex1, hex2))

hexAdd(hex1, hex2) == [q |-> hex1.q + hex2.q, r |-> hex1.r + hex2.r]

hexEquals(hex1, hex2) == hex1.q = hex2.q /\ hex1.r = hex2.r

\* `${hex.q},${hex.r}` : the key is the pair of the two decimal numerals
hexToKey(hex) == <<hex.q, hex.r>>

\* key.split(',').map(Number)
keyToHex(key) == [q |-> key[1], r |-> key[2]]

HEX_DIRECTIONS ==
    << Hex(1, 0),    \* East
       Hex(1, -1),   \* Northeast
       Hex(0, -1),   \* Northwest
       Hex(-1, 0),   \* West
       Hex(-1, 1),   \* Southwest
       Hex(0, 1) >>  \* Southeast

\* a variant of getNeighbors that lists the neighbors in the opposite order
getNeighborsReversed(hex) == [i \in 1..6 |-> hexAdd(hex, HEX_DIRECTIONS[7 - i])]

getNeighbors(hex) == [i \in 1..6 |-> hexAdd(hex, HEX_DIRECTIONS[i])]

\* direction is 0-based as in the source
getNeighbor(hex, direction) == hexAdd(hex, HEX_DIRECTIONS[(direction % 6) + 1])


isAdjacent(hex1, hex2) == hexDistance(hex1, hex2) = 1

(***************************************************************************)
(* engine/core/hex.ts : path finding                                       *)
(* A Map is a function on the keys set; a Set that is iterated is the      *)
(* sequence of its elements in insertion order.                            *)
(***************************************************************************)
WALL      == "wall"
OBSTACLE  == "obstacle"
DIFFICULT == "difficult"
NORMAL    == "normal"

\* map.get(key) ?? dflt
mapGet(map, key, dflt) == IF key \in DOMAIN map THEN map[key] ELSE dflt

\* map.set(key, value)
mapSet(map, key, value) ==
    [k \in DOMAIN map \cup {key} |-> IF k = key THEN value ELSE map[k]]

\* set.delete(key) on an insertion-ordered Set
setDelete(set, key) == SelectSeq(set, LAMBDA k : k # key)

\* set.add(key) on an insertion-ordered Set
setAdd(set, key) ==
    IF \E i \in 1..Len(set) : set[i] = key THEN set ELSE Append(set, key)

\* a variant of isPassable in which a jump is stopped by obstacles
isPassableJumpStopped(hex, options) ==
    IF options.canFly \/ options.canJump
    THEN hex.terrain # WALL /\ hex.terrain # OBSTACLE
    ELSE IF hex.terrain = WALL \/ hex.terrain = OBSTACLE
    THEN options.ignoreObstacles
    ELSE IF hex.occupant # Undefined /\ ~options.ignoreFigures
    THEN FALSE
    ELSE TRUE

isPassable(hex, options) ==
    IF options.canFly
    THEN hex.terrain # WALL /\ hex.terrain # OBSTACLE
    ELSE IF options.canJump
    THEN hex.terrain # WALL
    ELSE IF hex.terrain = WALL \/ hex.terrain = OBSTACLE
    THEN options.ignoreObstacles
    ELSE IF hex.occupant # Undefined /\ ~options.ignoreFigures
    THEN FALSE
    ELSE TRUE

\* a variant of getMovementCost in which flying is free
getMovementCostFlyFree(hex, options) ==
    IF options.canFly THEN 0
    ELSE IF hex.terrain = DIFFICULT /\ ~options.ignoreDifficultTerrain THEN 2
    ELSE 1

\* a variant of getMovementCost in which flying pays for the terrain
getMovementCostFlyPays(hex, options) ==
    IF hex.terrain = DIFFICULT /\ ~options.ignoreDifficultTerrain THEN 2
    ELSE 1

getMovementCost(hex, options) ==
    IF options.canFly THEN 1
    ELSE IF hex.terrain = DIFFICULT /\ ~options.ignoreDifficultTerrain THEN 2
    ELSE 1

PathResult(path, cost, isValid) == [path |-> path, cost |-> cost, isValid |-> isValid]

\* a variant of reconstructPath that stops before the start is added
RECURSIVE reconstructPathNoStart(_, _, _)
reconstructPathNoStart(cameFrom, current, totalCost) ==
    IF current \in DOMAIN cameFrom
    THEN LET rest == reconstructPathNoStart(cameFrom, cameFrom[current], totalCost)
         IN  PathResult(Append(rest.path, keyToHex(current)), totalCost, TRUE)
    ELSE PathResult(<<>>, totalCost, TRUE)

RECURSIVE reconstructPath(_, _, _)
reconstructPath(cameFrom, current, totalCost) ==
    IF current \in DOMAIN cameFrom
    THEN LET rest == reconstructPath(cameFrom, cameFrom[current], totalCost)
         IN  PathResult(Append(rest.path, keyToHex(current)), totalCost, TRUE)
    ELSE PathResult(<<keyToHex(current)>>, totalCost, TRUE)

\* a variant of the quick check that lets one hex beyond the range through
goalBeyondRangeByTwo(start, goal, options) == hexDistance(start, goal) > options.range + 1

\* the quick check at the head of findPath
goalBeyondRange(start, goal, options) == hexDistance(start, goal) > options.range

\* a variant of lowestFNode in which the last node with the lowest fScore wins
RECURSIVE lowestFNodeLastWins(_, _, _, _, _)
lowestFNodeLastWins(openSet, fScore, i, current, lowestF) ==
    IF i > Len(openSet) THEN current
    ELSE LET f == mapGet(fScore, openSet[i], Infinity)
         IN  IF f <= lowestF
             THEN lowestFNodeLastWins(openSet, fScore, i + 1, openSet[i], f)
             ELSE lowestFNodeLastWins(openSet, fScore, i + 1, current, lowestF)

\* the scan of openSet for the node with the lowest fScore: the first one wins
RECURSIVE lowestFNode(_, _, _, _, _)
lowestFNode(openSet, fScore, i, current, lowestF) ==
    IF i > Len(openSet) THEN current
    ELSE LET f == mapGet(fScore, openSet[i], Infinity)
         IN  IF f < lowestF
             THEN lowestFNode(openSet, fScore, i + 1, openSet[i], f)
             ELSE lowestFNode(openSet, fScore, i + 1, current, lowestF)

\* gScore.get(current) + moveCost
\* (a variant that forgets the terrain cost)
tentativeGUnitCost(gCurrent, moveCost) == gCurrent + 1

\* (a variant that adds nothing)
tentativeGScoreFree(gCurrent, moveCost) == gCurrent

tentativeGScore(gCurrent, moveCost) == gCurrent + moveCost

\* the loop over getNeighbors(currentHex), from the i-th neighbor on;
\* st = [openSet, cameFrom, gScore, fScore]
RECURSIVE visitNeighbors(_, _, _, _, _, _)
visitNeighbors(st, current, i, goal, gameMap, options) ==
    IF i > 6 THEN st
    ELSE LET neighbor    == getNeighbors(keyToHex(current))[i]
             neighborKey == hexToKey(neighbor)
         IN  IF neighborKey \notin DOMAIN gameMap
                   \/ ~isPassable(gameMap[neighborKey], options)
             THEN visitNeighbors(st, current, i + 1, goal, gameMap, options)
             ELSE LET moveCost   == getMovementCost(gameMap[neighborKey], options)
                      tentativeG == tentativeGScore(mapGet(st.gScore, current, Infinity),
                                                    moveCost)
                  IN  IF tentativeG < mapGet(st.gScore, neighborKey, Infinity)
                      THEN visitNeighbors(
                             [openSet  |-> setAdd(st.openSet, neighborKey),
                              cameFrom |-> mapSet(st.cameFrom, neighborKey, current),
                              gScore   |-> mapSet(st.gScore, neighborKey, tentativeG),
                              fScore   |-> mapSet(st.fScore, neighborKey,
                                                  tentativeG + hexDistance(neighbor, goal))],
                             current, i + 1, goal, gameMap, options)
                      ELSE visitNeighbors(st, current, i + 1, goal, gameMap, options)

\* the while (openSet.size > 0) loop
RECURSIVE aStarLoop(_, _, _, _)
aStarLoop(st, goal, gameMap, options) ==
    IF Len(st.openSet) = 0
    THEN PathResult(<<>>, Infinity, FALSE)
    ELSE LET current == lowestFNode(st.openSet, st.fScore, 1, <<>>, Infinity)
         IN  IF hexEquals(keyToHex(current), goal)
             THEN reconstructPath(st.cameFrom, current, mapGet(st.gScore, current, 0))
             ELSE aStarLoop(
                    visitNeighbors([st EXCEPT !.openSet = setDelete(st.openSet, current)],
                                   current, 1, goal, gameMap, options),
                    goal, gameMap, options)

findPath(start, goal, gameMap, options) ==
    IF goalBeyondRange(start, goal, options)
    THEN PathResult(<<>>, Infinity, FALSE)
    ELSE aStarLoop([openSet  |-> <<hexToKey(start)>>,
                    cameFrom |-> <<>>,
                    gScore   |-> mapSet(<<>>, hexToKey(start), 0),
                    fScore   |-> mapSet(<<>>, hexToKey(start), hexDistance(start, goal))],
                   goal, gameMap, options)

\* history of the while loop: for each iteration the open set and the f-scores
\* it starts with and the node it selects
RECURSIVE aStarExpansions(_, _, _, _)
aStarExpansions(st, goal, gameMap, options) ==
    IF Len(st.openSet) = 0
    THEN <<>>
    ELSE LET current == lowestFNode(st.openSet, st.fScore, 1, <<>>, Infinity)
             here    == [openSet |-> st.openSet, fScore |-> st.fScore, current |-> current]
         IN  IF hexEquals(keyToHex(current), goal)
             THEN <<here>>
             ELSE <<here>> \o aStarExpansions(
                    visitNeighbors([st EXCEPT !.openSet = setDelete(st.openSet, current)],
                                   current, 1, goal, gameMap, options),
                    goal, gameMap, options)

\* the iterations of the loop in findPath(start, goal, gameMap, options)
findPathExpansions(start, goal, gameMap, options) ==
    IF goalBeyondRange(start, goal, options)
    THEN <<>>
    ELSE aStarExpansions([openSet  |-> <<hexToKey(start)>>,
                          cameFrom |-> <<>>,
                          gScore   |-> mapSet(<<>>, hexToKey(start), 0),
                          fScore   |-> mapSet(<<>>, hexToKey(start), hexDistance(start, goal))],
                         goal, gameMap, options)

\* ---- the calls of findPath that are checked ----
\* no call of findPath is taken step by step
SearchIdle == [pc |-> "idle"]

GameHex(q, r, terrain, occupant) ==
    [q |-> q, r |-> r, terrain |-> terrain, occupant |-> occupant]

\* the hexes of a board: q, r in 0..BoardSize-1, as the test maps of types.test.ts
BoardKeys == (0..(BoardSize - 1)) \X (0..(BoardSize - 1))
\* the hexes whose terrain and occupant vary; every other hex is normal and empty.
\* The two neighbors of the start take every terrain, with and without a figure;
\* the hex behind them is normal or difficult.
FeatureKeys == {<<1, 0>>, <<0, 1>>, <<1, 1>>}
HexKinds(k) ==
    IF k = <<1, 1>> THEN {NORMAL, DIFFICULT} \X {Undefined}
    ELSE {NORMAL, DIFFICULT, OBSTACLE, WALL} \X {Undefined, "figure"}
Boards ==
    {[k \in BoardKeys |->
        IF k \in FeatureKeys THEN GameHex(k[1], k[2], f[k][1], f[k][2])
        ELSE GameHex(k[1], k[2], NORMAL, Undefined)] :
     f \in {g \in [FeatureKeys -> {NORMAL, DIFFICULT, OBSTACLE, WALL}
                                      \X {Undefined, "figure"}] :
               \A k \in FeatureKeys : g[k] \in HexKinds(k)}}
MovementOptions ==
    [range : 1..MaxRange, canFly : BOOLEAN, canJump : BOOLEAN,
     ignoreDifficultTerrain : BOOLEAN, ignoreObstacles : BOOLEAN, ignoreFigures : BOOLEAN]
Starts == {Hex(0, 0)}
\* the hexes of the board, and one hex that is not on it
Goals == {keyToHex(k) : k \in BoardKeys} \cup {Hex(-1, 1)}

InitPath ==
    /\ fpStart \in Starts
    /\ fpGoal \in Goals
    /\ fpMap \in Boards
    /\ fpOptions \in MovementOptions
    /\ fpResult = Pending
    /\ fpTrace = <<>>
    /\ fpAgain = Pending
    /\ fpSearch = SearchIdle

findPathCall ==
    /\ fpResult = Pending
    /\ fpResult' = findPath(fpStart, fpGoal, fpMap, fpOptions)
    /\ UNCHANGED <<fpStart, fpGoal, fpMap, fpOptions, fpTrace, fpAgain, fpSearch>>

\* ---- two calls of findPath with the same arguments ----
\* the movement types, under the default ignore flags
RunOptions ==
    {o \in MovementOptions :
        ~o.ignoreDifficultTerrain /\ ~o.ignoreObstacles /\ ~o.ignoreFigures}

InitRuns ==
    /\ fpStart \in Starts
    /\ fpGoal \in Goals
    /\ fpMap \in Boards
    /\ fpOptions \in RunOptions
    /\ fpResult = Pending
    /\ fpTrace = <<>>
    /\ fpAgain = Pending
    /\ fpSearch = SearchIdle

findPathFirstRun ==
    /\ fpResult = Pending
    /\ fpResult' = findPath(fpStart, fpGoal, fpMap, fpOptions)
    /\ fpTrace' = findPathExpansions(fpStart, fpGoal, fpMap, fpOptions)
    /\ UNCHANGED <<fpStart, fpGoal, fpMap, fpOptions, fpAgain, fpSearch>>

findPathSecondRun ==
    /\ fpResult # Pending
    /\ fpAgain = Pending
    /\ fpAgain' = findPath(fpStart, fpGoal, fpMap, fpOptions)
    /\ UNCHANGED <<fpStart, fpGoal, fpMap, fpOptions, fpResult, fpTrace, fpSearch>>

\* ---- one call of findPath, one iteration of its loop at a time ----
\* boards without figures: the two neighbors of the start are normal,
\* difficult or walls, the hex behind them is normal or difficult
SearchBoards ==
    {m \in Boards :
        /\ \A k \in FeatureKeys : m[k].occupant = Undefined
        /\ \A k \in FeatureKeys : m[k].terrain # OBSTACLE}
SearchOptions ==
    {o \in MovementOptions : ~o.ignoreObstacles /\ ~o.ignoreFigures}

\* findPath(start, goal, gameMap, options) up to the while loop: the quick
\* check, then the sets and maps of A*
findPathEnter(start, goal, gameMap, options) ==
    /\ fpSearch.pc = "idle"
    /\ fpStart' = start /\ fpGoal' = goal /\ fpMap' = gameMap /\ fpOptions' = options
    /\ IF goalBeyondRange(start, goal, options)
       THEN /\ fpResult' = PathResult(<<>>, Infinity, FALSE)
            /\ fpSearch' = [pc    |-> "returned",
                            st    |-> [openSet |-> <<>>, cameFrom |-> <<>>,
                                       gScore |-> <<>>, fScore |-> <<>>],
                            steps |-> 0]
       ELSE /\ fpSearch' = [pc    |-> "loop",
                            st    |-> [openSet  |-> <<hexToKey(start)>>,
                                       cameFrom |-> <<>>,
                                       gScore   |-> mapSet(<<>>, hexToKey(start), 0),
                                       fScore   |-> mapSet(<<>>, hexToKey(start),
                                                           hexDistance(start, goal))],
                            steps |-> 0]
            /\ UNCHANGED fpResult
    /\ UNCHANGED <<fpTrace, fpAgain>>

\* the test of the while loop and one pass through its body
findPathIterate ==
    /\ fpSearch.pc = "loop"
    /\ LET st == fpSearch.st
       IN  IF Len(st.openSet) = 0
           THEN /\ fpResult' = PathResult(<<>>, Infinity, FALSE)
                /\ fpSearch' = [fpSearch EXCEPT !.pc = "returned"]
           ELSE LET current == lowestFNode(st.openSet, st.fScore, 1, <<>>, Infinity)
                IN  IF hexEquals(keyToHex(current), fpGoal)
                    THEN /\ fpResult' = reconstructPath(st.cameFrom, current,
                                                        mapGet(st.gScore, current, 0))
                         /\ fpSearch' = [fpSearch EXCEPT !.pc = "returned"]
                    ELSE /\ fpSearch' =
                                [pc    |-> "loop",
                                 st    |-> visitNeighbors(
                                             [st EXCEPT !.openSet = setDelete(st.openSet, current)],
                                             current, 1, fpGoal, fpMap, fpOptions),
                                 steps |-> fpSearch.steps + 1]
                         /\ UNCHANGED fpResult
    /\ UNCHANGED <<fpStart, fpGoal, fpMap, fpOptions, fpTrace, fpAgain>>

(***************************************************************************)
(* engine/core/hex.ts : getHexRing                                         *)
(***************************************************************************)
\* the two nested loops: i is the direction (0..5), j the step along the side
RECURSIVE ringWalk(_, _, _, _, _)
ringWalk(hex, i, j, radius, results) ==
    IF i >= 6 THEN results
    ELSE IF j >= radius THEN ringWalk(hex, i + 1, 0, radius, results)
    ELSE ringWalk(getNeighbor(hex, i), i, j + 1, radius, Append(results, hex))

getHexRing(center, radius) ==
    IF radius = 0 THEN <<center>>
    ELSE ringWalk(hexAdd(center, Hex(0, -radius)), 0, 0, radius, <<>>)

RingCenters == {Hex(q, r) : q \in -MaxCoord..MaxCoord, r \in -MaxCoord..MaxCoord}

InitRing ==
    /\ ringCenter \in RingCenters
    /\ ringRadius \in 0..MaxRadius
    /\ ringResult = Pending

getHexRingCall ==
    /\ ringResult = Pending
    /\ ringResult' = Returned(getHexRing(ringCenter, ringRadius))
    /\ UNCHANGED <<ringCenter, ringRadius>>

(***************************************************************************)
(* engine/core/hex.ts : getHexesInRange                                    *)
(***************************************************************************)
\* a variant of rangeRowStart that walks the whole square of side 2 * range + 1
rangeRowStartSquare(q, range) == -range

\* r1 and r2, the bounds of the inner loop for the column q
rangeRowStart(q, range) == Max(-range, -q - range)
rangeRowEnd(q, range)   == Min(range, -q + range)

\* the outer loop, from column q on
RECURSIVE rangeColumns(_, _, _, _)
rangeColumns(center, range, q, hexes) ==
    IF q > range THEN hexes
    ELSE LET r1 == rangeRowStart(q, range)
             r2 == rangeRowEnd(q, range)
         IN  rangeColumns(center, range, q + 1,
                          hexes \o [j \in 1..(r2 - r1 + 1) |->
                                      Hex(center.q + q, center.r + r1 + j - 1)])

getHexesInRange(center, range) == rangeColumns(center, range, -range, <<>>)

(***************************************************************************)
(* engine/core/hex.ts : line of sight and targets                          *)
(* A fractional coordinate is a numerator over the denominator den that    *)
(* all coordinates of one line share (the distance of its end points).     *)
(* For the coordinates used here the doubles the source computes round to  *)
(* the same integers and compare the same way as these exact fractions.    *)
(***************************************************************************)
\* Math.round(num / den) for den > 0: the nearest integer, a half goes up
mathRound(num, den) == (2 * num + den) \div (2 * den)

\* a variant of hexRound that rounds q and r on their own
hexRoundNaive(hex, den) == Hex(mathRound(hex.q, den), mathRound(hex.r, den))

\* hexRound({q: hex.q / den, r: hex.r / den}); the differences are kept times den
hexRound(hex, den) ==
    LET s     == -hex.q - hex.r
        rq    == mathRound(hex.q, den)
        rr    == mathRound(hex.r, den)
        rs    == mathRound(s, den)
        qDiff == Abs(rq * den - hex.q)
        rDiff == Abs(rr * den - hex.r)
        sDiff == Abs(rs * den - s)
    IN  IF qDiff > rDiff /\ qDiff > sDiff THEN Hex(-rr - rs, rr)
        ELSE IF rDiff > sDiff THEN Hex(rq, -rq - rs)
        ELSE Hex(rq, rr)

getHexLine(start, end) ==
    LET distance == hexDistance(start, end)
        den      == IF distance = 0 THEN 1 ELSE distance
    IN  [j \in 1..(distance + 1) |->
            \* i = j - 1, t = i / distance (0 for distance 0)
            LET i == IF distance = 0 THEN 0 ELSE j - 1
            IN  hexRound(Hex(start.q * den + (end.q - start.q) * i,
                             start.r * den + (end.r - start.r) * i), den)]

\* a variant of blocksSight in which obstacles are seen over
blocksSightWallOnly(hex) == hex.terrain = WALL

\* hex.terrain === TerrainType.WALL || hex.terrain === TerrainType.OBSTACLE
blocksSight(hex) == hex.terrain = WALL \/ hex.terrain = OBSTACLE

\* the loop of hasLineOfSight over line[i .. last], 1-based
RECURSIVE sightLoop(_, _, _, _)
sightLoop(line, i, last, gameMap) ==
    IF i > last THEN TRUE
    ELSE IF hexToKey(line[i]) \notin DOMAIN gameMap
    THEN sightLoop(line, i + 1, last, gameMap)
    ELSE IF blocksSight(gameMap[hexToKey(line[i])]) THEN FALSE
    ELSE sightLoop(line, i + 1, last, gameMap)

\* a variant of hasLineOfSight whose loop looks at the two end points too
hasLineOfSightWithEnds(start, end, gameMap) ==
    IF hexEquals(start, end) THEN TRUE
    ELSE LET line == getHexLine(start, end)
         IN  sightLoop(line, 1, Len(line), gameMap)

hasLineOfSight(start, end, gameMap) ==
    IF hexEquals(start, end) THEN TRUE
    ELSE LET line == getHexLine(start, end)
         IN  sightLoop(line, 2, Len(line) - 1, gameMap)

(***************************************************************************)
(* The same line in the arithmetic of the source: every number is an IEEE  *)
(* 754 double, and i / distance, the product, the sum and the differences  *)
(* of hexRound are each rounded to 53 significant bits (nearest, ties to   *)
(* even).  A double is a sign and a magnitude; the magnitude is a fixed    *)
(* point number of four limbs <<l0, l1, l2, l3>> of LimbBits bits, l3 the  *)
(* integer part and l2, l1, l0 the fraction, which is exact for every      *)
(* double between 2^-13 and 2^8 and every sum, product and difference      *)
(* of the lines drawn here.                                                *)
(***************************************************************************)
LimbBase == 2 ^ LimbBits

RECURSIVE magAdd(_, _, _, _)
magAdd(a, b, i, carry) ==
    IF i > Len(a) THEN <<>>
    ELSE LET sum == a[i] + b[i] + carry
         IN  <<sum % LimbBase>> \o magAdd(a, b, i + 1, sum \div LimbBase)

\* a - b for a >= b
RECURSIVE magSub(_, _, _, _)
magSub(a, b, i, borrow) ==
    IF i > Len(a) THEN <<>>
    ELSE LET diff == a[i] - b[i] - borrow
         IN  <<diff % LimbBase>> \o magSub(a, b, i + 1, IF diff < 0 THEN 1 ELSE 0)

RECURSIVE magTimes(_, _, _, _)
magTimes(a, k, i, carry) ==
    IF i > Len(a) THEN <<>>
    ELSE LET product == a[i] * k + carry
         IN  <<product % LimbBase>> \o magTimes(a, k, i + 1, product \div LimbBase)

\* a < b, compared from limb i down
RECURSIVE magLess(_, _, _)
magLess(a, b, i) ==
    IF i = 0 THEN FALSE
    ELSE IF a[i] # b[i] THEN a[i] < b[i]
    ELSE magLess(a, b, i - 1)

magZero == <<0, 0, 0, 0>>

RECURSIVE bitLength(_)
bitLength(n) == IF n = 0 THEN 0 ELSE 1 + bitLength(n \div 2)

RECURSIVE magBitLength(_, _)
magBitLength(a, i) ==
    IF i = 0 THEN 0
    ELSE IF a[i] # 0 THEN LimbBits * (i - 1) + bitLength(a[i])
    ELSE magBitLength(a, i - 1)

\* the magnitude rounded to SignificandBits significant bits, nearest, ties to
\* even; sticky: the exact value lies above the magnitude (a quotient cut off)
roundToDouble(a, sticky) ==
    LET drop == magBitLength(a, Len(a)) - SignificandBits
    IN  IF drop <= 0 THEN a
        ELSE LET unit    == 2 ^ drop
                 rem     == a[1] % unit
                 half    == unit \div 2
                 down    == [a EXCEPT ![1] = a[1] - rem]
                 keptOdd == IF unit = LimbBase THEN a[2] % 2 = 1
                            ELSE (a[1] \div unit) % 2 = 1
             IN  IF rem > half \/ (rem = half /\ (sticky \/ keptOdd))
                 THEN magAdd(down, <<unit % LimbBase, unit \div LimbBase, 0, 0>>, 1, 0)
                 ELSE down

Double(neg, mag) == [neg |-> neg /\ mag # magZero, mag |-> mag]

\* the double of an integer
doubleOf(n) == Double(n < 0, <<0, 0, 0, Abs(n)>>)

\* i / d for integers 0 <= i, 0 < d
doubleQuotient(i, d) ==
    LET r3 == i % d
        l2 == (r3 * LimbBase) \div d
        r2 == (r3 * LimbBase) % d
        l1 == (r2 * LimbBase) \div d
        r1 == (r2 * LimbBase) % d
        l0 == (r1 * LimbBase) \div d
        r0 == (r1 * LimbBase) % d
    IN  Double(FALSE, roundToDouble(<<l0, l1, l2, i \div d>>, r0 # 0))

\* k * x for an integer k
doubleTimes(k, x) ==
    Double((k < 0) # x.neg, roundToDouble(magTimes(x.mag, Abs(k), 1, 0), FALSE))

doubleNeg(x) == Double(~x.neg, x.mag)

doublePlus(x, y) ==
    IF x.neg = y.neg
    THEN Double(x.neg, roundToDouble(magAdd(x.mag, y.mag, 1, 0), FALSE))
    ELSE IF magLess(x.mag, y.mag, Len(x.mag))
    THEN Double(y.neg, roundToDouble(magSub(y.mag, x.mag, 1, 0), FALSE))
    ELSE Double(x.neg, roundToDouble(magSub(x.mag, y.mag, 1, 0), FALSE))

doubleMinus(x, y) == doublePlus(x, doubleNeg(y))

\* Math.abs(x) > Math.abs(y)
absGreater(x, y) == magLess(y.mag, x.mag, Len(x.mag))

\* Math.round(x): the nearest integer, a half goes up (towards +Infinity)
mathRoundDouble(x) ==
    LET whole    == x.mag[4]
        halfLimb == LimbBase \div 2
        atLeastHalf  == x.mag[3] >= halfLimb
        moreThanHalf == x.mag[3] > halfLimb
                           \/ (x.mag[3] = halfLimb /\ (x.mag[2] # 0 \/ x.mag[1] # 0))
    IN  IF x.neg THEN (IF moreThanHalf THEN -(whole + 1) ELSE -whole)
        ELSE (IF atLeastHalf THEN whole + 1 ELSE whole)

\* hexRound({q, r}) for doubles q and r
hexRoundDouble(q, r) ==
    LET s     == doubleMinus(doubleNeg(q), r)
        rq    == mathRoundDouble(q)
        rr    == mathRoundDouble(r)
        rs    == mathRoundDouble(s)
        qDiff == doubleMinus(doubleOf(rq), q)
        rDiff == doubleMinus(doubleOf(rr), r)
        sDiff == doubleMinus(doubleOf(rs), s)
    IN  IF absGreater(qDiff, rDiff) /\ absGreater(qDiff, sDiff) THEN Hex(-rr - rs, rr)
        ELSE IF absGreater(rDiff, sDiff) THEN Hex(rq, -rq - rs)
        ELSE Hex(rq, rr)

getHexLineDouble(start, end) ==
    LET distance == hexDistance(start, end)
    IN  [j \in 1..(distance + 1) |->
            LET t == IF distance = 0 THEN doubleOf(0) ELSE doubleQuotient(j - 1, distance)
                x == doublePlus(doubleOf(start.q), doubleTimes(end.q - start.q, t))
                y == doublePlus(doubleOf(start.r), doubleTimes(end.r - start.r, t))
            IN  hexRoundDouble(x, y)]

\* hasLineOfSight over the line as the doubles draw it
hasLineOfSightDouble(start, end, gameMap) ==
    IF hexEquals(start, end) THEN TRUE
    ELSE LET line == getHexLineDouble(start, end)
         IN  sightLoop(line, 2, Len(line) - 1, gameMap)

\* .map(hex => gameMap.get(hexToKey(hex))).filter(hex => hex !== undefined)
RECURSIVE boardHexes(_, _)
boardHexes(hexes, gameMap) ==
    IF hexes = <<>> THEN <<>>
    ELSE LET rest == boardHexes(Tail(hexes), gameMap)
         IN  IF hexToKey(Head(hexes)) \in DOMAIN gameMap
             THEN <<gameMap[hexToKey(Head(hexes))]>> \o rest
             ELSE rest

\* hex.occupant as a condition: undefined and the empty string are falsy
hasOccupant(hex) == hex.occupant # Undefined /\ hex.occupant # ""

\* a variant of getValidTargets that does not ask for a line of sight
getValidTargetsNoSight(attacker, range, gameMap) ==
    IF range = 0
    THEN SelectSeq(boardHexes(getNeighbors(attacker), gameMap), hasOccupant)
    ELSE SelectSeq(SelectSeq(boardHexes(getHexesInRange(attacker, range), gameMap),
                             hasOccupant),
                   LAMBDA hex : ~hexEquals(attacker, hex))

getValidTargets(attacker, range, gameMap) ==
    IF range = 0
    THEN SelectSeq(boardHexes(getNeighbors(attacker), gameMap), hasOccupant)
    ELSE SelectSeq(SelectSeq(SelectSeq(boardHexes(getHexesInRange(attacker, range), gameMap),
                                       hasOccupant),
                             LAMBDA hex : ~hexEquals(attacker, hex)),
                   LAMBDA hex : hasLineOfSight(attacker, hex, gameMap))

\* ---- the calls of hasLineOfSight and getValidTargets that are checked ----
\* the hexes whose presence, terrain and occupant vary; every other hex of the
\* board is normal and holds a figure
SightFeatureKeys == {<<1, 0>>, <<0, 1>>, <<1, 1>>, <<2, 1>>}
Absent == "absent"
SightKinds ==
    {<<Absent, Undefined>>, <<NORMAL, Undefined>>, <<NORMAL, "figure">>,
     <<WALL, "figure">>, <<OBSTACLE, Undefined>>}
SightBoards ==
    {[k \in {b \in BoardKeys : b \in SightFeatureKeys => f[b][1] # Absent} |->
        IF k \in SightFeatureKeys THEN GameHex(k[1], k[2], f[k][1], f[k][2])
        ELSE GameHex(k[1], k[2], NORMAL, "figure")] :
     f \in [SightFeatureKeys -> SightKinds]}
SightFroms == {Hex(0, 0), Hex(2, 0), Hex(1, 1)}
SightTos   == {keyToHex(k) : k \in BoardKeys}

InitSight ==
    /\ sightFrom \in SightFroms
    /\ sightTo \in SightTos
    /\ sightRange \in 0..MaxRange
    /\ sightMap \in SightBoards
    /\ sightResult = Pending

hasLineOfSightCall ==
    /\ sightResult = Pending
    /\ sightResult' = [op    |-> "hasLineOfSight",
                       value |-> hasLineOfSight(sightFrom, sightTo, sightMap)]
    /\ UNCHANGED <<sightFrom, sightTo, sightRange, sightMap>>

\* ---- lines of sight looked along in both directions ----
\* end points near each other and far apart
MirrorEnds == {Hex(-6, -6), Hex(5, 5), Hex(0, 0), Hex(3, 1), Hex(1, 3), Hex(2, 2)}
\* the hexes of the board, each of them open ground, a wall or an obstacle
MirrorKeys == {<<1, 2>>, <<2, 1>>, <<1, 1>>}
MirrorBoards ==
    {[k \in {b \in MirrorKeys : f[b] # Absent} |-> GameHex(k[1], k[2], f[k], Undefined)] :
     f \in [MirrorKeys -> {Absent, NORMAL, WALL, OBSTACLE}]}

InitMirror ==
    /\ sightFrom \in MirrorEnds
    /\ sightTo \in MirrorEnds
    /\ sightRange = 0
    /\ sightMap \in MirrorBoards
    /\ sightResult = Pending

\* hasLineOfSight(sightFrom, sightTo, sightMap)
hasLineOfSightThere ==
    /\ sightResult = Pending
    /\ sightResult' = [op    |-> "hasLineOfSight",
                       value |-> hasLineOfSightDouble(sightFrom, sightTo, sightMap)]
    /\ UNCHANGED <<sightFrom, sightTo, sightRange, sightMap>>

\* then hasLineOfSight(sightTo, sightFrom, sightMap)
hasLineOfSightBack ==
    /\ sightResult # Pending
    /\ sightResult.op = "hasLineOfSight"
    /\ sightResult' = [op    |-> "hasLineOfSightBothWays",
                       value |-> sightResult.value,
                       back  |-> hasLineOfSightDouble(sightTo, sightFrom, sightMap)]
    /\ UNCHANGED <<sightFrom, sightTo, sightRange, sightMap>>

getValidTargetsCall ==
    /\ sightResult = Pending
    /\ sightResult' = [op    |-> "getValidTargets",
                       value |-> getValidTargets(sightFrom, sightRange, sightMap)]
    /\ UNCHANGED <<sightFrom, sightTo, sightRange, sightMap>>

(***************************************************************************)
(* engine/core/hex.ts : calls of the basic hex operations                  *)
(***************************************************************************)
GeoHexes == {Hex(q, r) : q \in -MaxCoord..MaxCoord, r \in -MaxCoord..MaxCoord}

InitGeo ==
    /\ geoA \in GeoHexes
    /\ geoB \in GeoHexes
    /\ geoN \in 0..MaxRadius
    /\ geoResult = Pending

\* the result of the call op(..., arg) of a basic hex operation
GeoReturned(op, arg, value) == [op |-> op, arg |-> arg, value |-> value]

getHexesInRangeCall ==
    /\ geoResult = Pending
    /\ geoResult' = GeoReturned("getHexesInRange", geoN, getHexesInRange(geoA, geoN))
    /\ UNCHANGED <<geoA, geoB, geoN>>

getNeighborsCall ==
    /\ geoResult = Pending
    /\ geoResult' = GeoReturned("getNeighbors", Undefined, getNeighbors(geoA))
    /\ UNCHANGED <<geoA, geoB, geoN>>

getNeighborCall(direction) ==
    /\ geoResult = Pending
    /\ geoResult' = GeoReturned("getNeighbor", direction, getNeighbor(geoA, direction))
    /\ UNCHANGED <<geoA, geoB, geoN>>

isAdjacentCall ==
    /\ geoResult = Pending
    /\ geoResult' = GeoReturned("isAdjacent", Undefined, isAdjacent(geoA, geoB))
    /\ UNCHANGED <<geoA, geoB, geoN>>

getHexLineCall ==
    /\ geoResult = Pending
    /\ geoResult' = GeoReturned("getHexLine", Undefined, getHexLine(geoA, geoB))
    /\ UNCHANGED <<geoA, geoB, geoN>>

hexDistanceCall ==
    /\ geoResult = Pending
    /\ geoResult' = GeoReturned("hexDistance", Undefined, hexDistance(geoA, geoB))
    /\ UNCHANGED <<geoA, geoB, geoN>>

(***************************************************************************)
(* store/gameStore.ts : the store                                          *)
(***************************************************************************)
Elements == {"fire", "ice", "air", "earth", "light", "dark"}
INERT  == "inert"
WANING == "waning"
STRONG == "strong"

CAMPAIGN_MANAGEMENT == "campaign"
SCENARIO_SETUP      == "setup"
SCENARIO_CLEANUP    == "cleanup"
SCENARIO_PLAY       == "play"
CARD_SELECTION      == "card_selection"
INITIATIVE_REVEAL   == "initiative_reveal"
ROUND_ACTIONS       == "actions"
END_OF_ROUND        == "end_of_round"
RoundPhases == {CARD_SELECTION, INITIATIVE_REVEAL, ROUND_ACTIONS, END_OF_ROUND}
GamePhases  == {CAMPAIGN_MANAGEMENT, SCENARIO_SETUP, SCENARIO_PLAY, SCENARIO_CLEANUP}

CharIds     == {"c1", "c2"}
\* ids startScenario may be called with: the characters, and one id of no character
PartyIds    == CharIds \cup {"nobody"}
PartyLists  == UNION {[1..n -> PartyIds] : n \in 0..MaxPartyLen}
ScenarioIds == {1}
\* hexes moveCharacter is called with; <<3, 0>> is not on the 5x5 board
MoveTargets == {Hex(0, 0), Hex(1, 0), Hex(3, 0)}
\* positions characters are added with (Character.position is optional)
AddPositions == {Null}

\* a variant of createInitialElementTracker with every element strong
createStrongElementTracker == [e \in Elements |-> STRONG]

createInitialElementTracker == [e \in Elements |-> INERT]

InitStore ==
    /\ gamePhase = CAMPAIGN_MANAGEMENT
    /\ scenario = Null
    /\ characters = <<>>
    /\ lastCall = [op |-> "create", arg |-> Undefined, ret |-> Void, before |-> Undefined]
    /\ sinceInfuse = <<>>
    /\ campaign = [reputation         |-> 0,
                   prosperity         |-> 1,
                   scenariosCompleted |-> {},
                   scenariosUnlocked  |-> {1}]
    /\ party = [location |-> "Gloomhaven", members |-> <<>>, reputation |-> 0]
    /\ replaced = Null
    /\ turnsTaken = 0

\* sinceInfuse with element e at count n / without element e
track(e, n) == [x \in DOMAIN sinceInfuse \cup {e} |-> IF x = e THEN n ELSE sinceInfuse[x]]
untrack(e)  == [x \in DOMAIN sinceInfuse \ {e} |-> sinceInfuse[x]]

setGamePhase(phase) ==
    /\ gamePhase' = phase
    /\ lastCall' = [op |-> "setGamePhase", arg |-> phase, ret |-> Void, before |-> Undefined]
    /\ UNCHANGED <<scenario, characters, sinceInfuse>>

\* gameState.characters.get(id)
hasCharacter(id) == id \in DOMAIN characters

addCharacter(id, level, position) ==
    /\ characters' = [c \in DOMAIN characters \cup {id} |->
                        IF c = id THEN [id |-> id, level |-> level, position |-> position,
                                       conditions |-> <<>>]
                        ELSE characters[c]]
    /\ lastCall' = [op |-> "addCharacter", arg |-> id, ret |-> Void, before |-> Undefined]
    /\ UNCHANGED <<gamePhase, scenario, sinceInfuse>>

\* the hex map after the occupant of the hex at key k is set to occ (no such hex: unchanged)
setOccupant(hexes, k, occ) ==
    IF k \in DOMAIN hexes THEN [hexes EXCEPT ![k].occupant = occ] ELSE hexes

\* a variant of moveCharacter that asks for the character only: without a
\* scenario the position is set and no hex is touched
moveCharacterWithoutScenario(characterId, targetHex) ==
    /\ lastCall' = [op |-> "moveCharacter", arg |-> <<characterId, targetHex>>,
                    ret |-> Void, before |-> Undefined]
    /\ IF hasCharacter(characterId)
       THEN /\ characters' = [characters EXCEPT ![characterId].position = targetHex]
            /\ IF scenario # Null
               THEN LET character == characters[characterId]
                        hexes     == scenario.hexes
                        cleared   == IF /\ character.position # Null
                                        /\ hexToKey(character.position) \in DOMAIN hexes
                                        /\ hexes[hexToKey(character.position)].occupant
                                               = characterId
                                     THEN setOccupant(hexes, hexToKey(character.position),
                                                      Undefined)
                                     ELSE hexes
                    IN  scenario' = [scenario EXCEPT
                                       !.hexes = setOccupant(cleared, hexToKey(targetHex),
                                                             characterId)]
               ELSE UNCHANGED scenario
       ELSE UNCHANGED <<characters, scenario>>
    /\ UNCHANGED <<gamePhase, sinceInfuse>>

moveCharacter(characterId, targetHex) ==
    /\ lastCall' = [op |-> "moveCharacter", arg |-> <<characterId, targetHex>>,
                    ret |-> Void, before |-> Undefined]
    /\ IF hasCharacter(characterId) /\ scenario # Null
       THEN LET character == characters[characterId]
                hexes     == scenario.hexes
                \* remove character from old position
                cleared   == IF /\ character.position # Null
                                /\ hexToKey(character.position) \in DOMAIN hexes
                                /\ hexes[hexToKey(character.position)].occupant = characterId
                             THEN setOccupant(hexes, hexToKey(character.position), Undefined)
                             ELSE hexes
            IN  /\ characters' = [characters EXCEPT ![characterId].position = targetHex]
                /\ scenario' = [scenario EXCEPT
                                  !.hexes = setOccupant(cleared, hexToKey(targetHex), characterId)]
       ELSE UNCHANGED <<characters, scenario>>
    /\ UNCHANGED <<gamePhase, sinceInfuse>>

\* ConditionType.IMMOBILIZE and a Condition of a type (value, duration and
\* source are optional and left out)
IMMOBILIZE == "immobilize"
Condition(type) == [type |-> type]

\* Object.assign(target, updates)
objectAssign(target, updates) ==
    [f \in DOMAIN target \cup DOMAIN updates |->
        IF f \in DOMAIN updates THEN updates[f] ELSE target[f]]

updateCharacter(characterId, updates) ==
    /\ lastCall' = [op |-> "updateCharacter", arg |-> <<characterId, updates>>,
                    ret |-> Void, before |-> Undefined]
    /\ IF hasCharacter(characterId)
       THEN characters' = [characters EXCEPT
                             ![characterId] = objectAssign(characters[characterId], updates)]
       ELSE UNCHANGED characters
    /\ UNCHANGED <<gamePhase, scenario, sinceInfuse>>

\* members.indexOf(id), 0-based, -1 if none
indexOf(members, id) ==
    LET hits == {i \in 1..Len(members) : members[i] = id}
    IN  IF hits = {} THEN -1
        ELSE (CHOOSE i \in hits : \A j \in hits : i <= j) - 1

\* members after members.splice(index, 1), index 0-based
splice(members, index) ==
    SubSeq(members, 1, index) \o SubSeq(members, index + 2, Len(members))

addToParty(characterId) ==
    /\ lastCall' = [op |-> "addToParty", arg |-> characterId, ret |-> Void,
                    before |-> Undefined]
    /\ IF indexOf(party.members, characterId) = -1
       THEN party' = [party EXCEPT !.members = Append(@, characterId)]
       ELSE UNCHANGED party
    /\ UNCHANGED <<gamePhase, scenario, characters, sinceInfuse, campaign>>

removeCharacter(characterId) ==
    /\ lastCall' = [op |-> "removeCharacter", arg |-> characterId, ret |-> Void,
                    before |-> Undefined]
    /\ characters' = [c \in DOMAIN characters \ {characterId} |-> characters[c]]
    /\ LET partyIndex == indexOf(party.members, characterId)
       IN  IF partyIndex > -1
           THEN party' = [party EXCEPT !.members = splice(@, partyIndex)]
           ELSE UNCHANGED party
    /\ UNCHANGED <<gamePhase, scenario, sinceInfuse, campaign>>

\* bounds = { minQ: -2, maxQ: 2, minR: -2, maxR: 2 }
minQ == -2
maxQ == 2
minR == -2
maxR == 2

\* partyMembers.map(id => characters.get(id)).filter(Boolean)
RECURSIVE partyCharacters(_)
partyCharacters(partyMembers) ==
    IF partyMembers = <<>> THEN <<>>
    ELSE LET rest == partyCharacters(Tail(partyMembers))
         IN  IF hasCharacter(Head(partyMembers))
             THEN <<characters[Head(partyMembers)]>> \o rest
             ELSE rest

RECURSIVE sumLevels(_)
sumLevels(chars) ==
    IF chars = <<>> THEN 0 ELSE Head(chars).level + sumLevels(Tail(chars))

\* a variant of scenarioLevelOf that adds 2 for five party members or more
scenarioLevelFiveOrMore(partyMembers) ==
    LET chars == partyCharacters(partyMembers)
    IN  IF Len(chars) = 0 THEN NaN
        ELSE LET base == Max(0, sumLevels(chars) \div (2 * Len(chars)))
             IN  IF Len(partyMembers) >= 5 THEN base + 2 ELSE base

\* Math.max(0, Math.floor(averageLevel / 2)), plus 2 for five party members;
\* averageLevel = sum / length is NaN for no character, and NaN stays NaN
scenarioLevelOf(partyMembers) ==
    LET chars == partyCharacters(partyMembers)
    IN  IF Len(chars) = 0 THEN NaN
        ELSE LET base == Max(0, sumLevels(chars) \div (2 * Len(chars)))
             IN  IF Len(partyMembers) = 5 THEN base + 2 ELSE base

\* the forEach that places the party: entry index (1-based here) of partyMembers
startPosition(partyMembers, index) ==
    Hex((index - 1) - (Len(partyMembers) \div 2), 0)

RECURSIVE placeParty(_, _, _, _)
placeParty(partyMembers, index, chars, hexMap) ==
    IF index > Len(partyMembers) THEN [chars |-> chars, hexMap |-> hexMap]
    ELSE LET characterId == partyMembers[index]
             pos         == startPosition(partyMembers, index)
         IN  IF characterId \in DOMAIN chars
             THEN placeParty(partyMembers, index + 1,
                             [chars EXCEPT ![characterId].position = pos],
                             setOccupant(hexMap, hexToKey(pos), characterId))
             ELSE placeParty(partyMembers, index + 1, chars, hexMap)

startScenario(scenarioId, partyMembers) ==
    LET hexMap == [k \in (minQ..maxQ) \X (minR..maxR) |->
                     [q |-> k[1], r |-> k[2], terrain |-> "normal", occupant |-> Undefined]]
        placed == placeParty(partyMembers, 1, characters, hexMap)
    IN  /\ characters' = placed.chars
        /\ scenario' = [id         |-> scenarioId,
                        level      |-> scenarioLevelOf(partyMembers),
                        hexes      |-> placed.hexMap,
                        elements   |-> createInitialElementTracker,
                        round      |-> 1,
                        initiative |-> <<>>,
                        phase      |-> CARD_SELECTION]
        /\ gamePhase' = SCENARIO_PLAY
        /\ lastCall' = [op |-> "startScenario", arg |-> <<scenarioId, partyMembers>>,
                        ret |-> Void, before |-> Undefined]
        /\ sinceInfuse' = <<>>

\* a variant of infuseElement that infuses inert elements only (no refresh)
infuseElementNoRefresh(element) ==
    /\ lastCall' = [op |-> "infuseElement", arg |-> element, ret |-> Void,
                    before |-> IF scenario = Null THEN Undefined
                               ELSE scenario.elements[element]]
    /\ IF scenario # Null /\ scenario.elements[element] = INERT
       THEN /\ scenario' = [scenario EXCEPT !.elements[element] = STRONG]
            /\ sinceInfuse' = track(element, 0)
       ELSE UNCHANGED <<scenario, sinceInfuse>>
    /\ UNCHANGED <<gamePhase, characters>>

infuseElement(element) ==
    /\ lastCall' = [op |-> "infuseElement", arg |-> element, ret |-> Void,
                    before |-> IF scenario = Null THEN Undefined
                               ELSE scenario.elements[element]]
    /\ IF scenario # Null
       THEN /\ scenario' = [scenario EXCEPT !.elements[element] = STRONG]
            /\ sinceInfuse' = track(element, 0)
       ELSE UNCHANGED <<scenario, sinceInfuse>>
    /\ UNCHANGED <<gamePhase, characters>>

\* get().gameState.scenario?.elements[element]
elementStateOf(element) ==
    IF scenario = Null THEN Undefined ELSE scenario.elements[element]

\* a variant of consumeElement that drains the whole tracker
consumeElementAll(element) ==
    LET state == elementStateOf(element)
    IN  IF state = STRONG \/ state = WANING
        THEN /\ scenario' = [scenario EXCEPT !.elements = createInitialElementTracker]
             /\ sinceInfuse' = <<>>
             /\ lastCall' = [op |-> "consumeElement", arg |-> element, ret |-> TRUE,
                             before |-> state]
             /\ UNCHANGED <<gamePhase, characters>>
        ELSE /\ lastCall' = [op |-> "consumeElement", arg |-> element, ret |-> FALSE,
                             before |-> state]
             /\ UNCHANGED <<gamePhase, scenario, characters, sinceInfuse>>

\* a variant of consumeElement that consumes strong elements only
consumeElementStrongOnly(element) ==
    LET state == elementStateOf(element)
    IN  IF state = STRONG
        THEN /\ scenario' = [scenario EXCEPT !.elements[element] = INERT]
             /\ sinceInfuse' = untrack(element)
             /\ lastCall' = [op |-> "consumeElement", arg |-> element, ret |-> TRUE,
                             before |-> state]
             /\ UNCHANGED <<gamePhase, characters>>
        ELSE /\ lastCall' = [op |-> "consumeElement", arg |-> element, ret |-> FALSE,
                             before |-> state]
             /\ UNCHANGED <<gamePhase, scenario, characters, sinceInfuse>>

consumeElement(element) ==
    LET state == elementStateOf(element)
    IN  IF state = STRONG \/ state = WANING
        THEN /\ scenario' = [scenario EXCEPT !.elements[element] = INERT]
             /\ sinceInfuse' = untrack(element)
             /\ lastCall' = [op |-> "consumeElement", arg |-> element, ret |-> TRUE,
                             before |-> state]
             /\ UNCHANGED <<gamePhase, characters>>
        ELSE /\ lastCall' = [op |-> "consumeElement", arg |-> element, ret |-> FALSE,
                             before |-> state]
             /\ UNCHANGED <<gamePhase, scenario, characters, sinceInfuse>>

\* a variant of wanedState that never lets a waning element go inert
wanedStateStuck(currentState) ==
    IF currentState = STRONG THEN WANING ELSE currentState

\* one pass of the loop body of waneElements over one element
wanedState(currentState) ==
    IF currentState = STRONG THEN WANING
    ELSE IF currentState = WANING THEN INERT
    ELSE currentState

waneElements ==
    /\ lastCall' = [op |-> "waneElements", arg |-> Undefined, ret |-> Void,
                    before |-> Undefined]
    /\ IF scenario # Null
       THEN /\ scenario' = [scenario EXCEPT
                              !.elements = [e \in Elements |-> wanedState(scenario.elements[e])]]
            /\ sinceInfuse' = [e \in DOMAIN sinceInfuse |-> Min(sinceInfuse[e] + 1, MaxWanes)]
       ELSE UNCHANGED <<scenario, sinceInfuse>>
    /\ UNCHANGED <<gamePhase, characters>>

isElementAvailable(element) ==
    IF scenario = Null THEN FALSE
    ELSE scenario.elements[element] = STRONG \/ scenario.elements[element] = WANING

\* a call of the selector isElementAvailable
isElementAvailableCall(element) ==
    /\ lastCall' = [op |-> "isElementAvailable", arg |-> element,
                    ret |-> isElementAvailable(element), before |-> Undefined]
    /\ UNCHANGED <<gamePhase, scenario, characters, sinceInfuse>>

\* a variant of endScenario that records every ended scenario as completed
endScenarioAlwaysCompleted(success) ==
    /\ campaign' = IF scenario # Null
                   THEN [campaign EXCEPT !.scenariosCompleted = @ \cup {scenario.id}]
                   ELSE campaign
    /\ scenario' = Null
    /\ gamePhase' = CAMPAIGN_MANAGEMENT
    /\ lastCall' = [op |-> "endScenario", arg |-> success, ret |-> Void, before |-> Undefined]
    /\ sinceInfuse' = <<>>
    /\ UNCHANGED <<characters, party>>

endScenario(success) ==
    /\ campaign' = IF scenario # Null /\ success
                   THEN [campaign EXCEPT !.scenariosCompleted = @ \cup {scenario.id}]
                   ELSE campaign
    /\ scenario' = Null
    /\ gamePhase' = CAMPAIGN_MANAGEMENT
    /\ lastCall' = [op |-> "endScenario", arg |-> success, ret |-> Void, before |-> Undefined]
    /\ sinceInfuse' = <<>>
    /\ UNCHANGED <<characters, party>>

updateScenarioPhase(phase) ==
    /\ lastCall' = [op |-> "updateScenarioPhase", arg |-> phase, ret |-> Void,
                    before |-> Undefined]
    /\ IF scenario # Null
       THEN scenario' = [scenario EXCEPT !.phase = phase]
       ELSE UNCHANGED scenario
    /\ UNCHANGED <<gamePhase, characters, sinceInfuse>>

InitiativeEntry(figureId, figureType) == [figureId |-> figureId, figureType |-> figureType]

setInitiativeOrder(order) ==
    /\ lastCall' = [op |-> "setInitiativeOrder", arg |-> order, ret |-> Void,
                    before |-> Undefined]
    /\ IF scenario # Null
       THEN scenario' = [scenario EXCEPT !.initiative = order]
       ELSE UNCHANGED scenario
    /\ UNCHANGED <<gamePhase, characters, sinceInfuse>>

\* the character whose turn it is: the first entry of the initiative order, if
\* it is a player with a character; Null for undefined
getCurrentCharacter ==
    IF scenario = Null \/ Len(scenario.initiative) = 0 THEN Null
    ELSE LET currentEntry == scenario.initiative[1]
         IN  IF currentEntry.figureType = "player" /\ hasCharacter(currentEntry.figureId)
             THEN characters[currentEntry.figureId]
             ELSE Null

\* initiative.findIndex(entry => entry.figureId === id), 0-based, -1 if none;
\* id is Undefined for getCurrentCharacter()?.id without a current character
findIndexOfFigure(initiative, id) ==
    LET hits == {i \in 1..Len(initiative) : initiative[i].figureId = id}
    IN  IF hits = {} THEN -1
        ELSE (CHOOSE i \in hits : \A j \in hits : i <= j) - 1

nextTurn ==
    /\ lastCall' = [op |-> "nextTurn", arg |-> Undefined, ret |-> Void, before |-> Undefined]
    /\ IF scenario # Null
       THEN LET current      == getCurrentCharacter
                currentIndex == findIndexOfFigure(
                                    scenario.initiative,
                                    IF current = Null THEN Undefined ELSE current.id)
            IN  IF currentIndex >= Len(scenario.initiative) - 1
                THEN scenario' = [scenario EXCEPT !.phase = END_OF_ROUND]
                ELSE UNCHANGED scenario
       ELSE UNCHANGED scenario
    /\ UNCHANGED <<gamePhase, characters, sinceInfuse>>

\* a variant of endRound that leaves the elements as they are
endRoundKeepsElements ==
    /\ lastCall' = [op |-> "endRound", arg |-> Undefined, ret |-> Void, before |-> Undefined]
    /\ IF scenario # Null
       THEN /\ scenario' = [scenario EXCEPT !.round = @ + 1,
                                            !.phase = CARD_SELECTION,
                                            !.initiative = <<>>]
            /\ UNCHANGED sinceInfuse
       ELSE UNCHANGED <<scenario, sinceInfuse>>
    /\ UNCHANGED <<gamePhase, characters>>

endRound ==
    /\ lastCall' = [op |-> "endRound", arg |-> Undefined, ret |-> Void, before |-> Undefined]
    /\ IF scenario # Null
       THEN /\ scenario' = [scenario EXCEPT
                              !.round = @ + 1,
                              !.phase = CARD_SELECTION,
                              !.initiative = <<>>,
                              !.elements = [e \in Elements |-> wanedState(scenario.elements[e])]]
            /\ sinceInfuse' = [e \in DOMAIN sinceInfuse |-> Min(sinceInfuse[e] + 1, MaxWanes)]
       ELSE UNCHANGED <<scenario, sinceInfuse>>
    /\ UNCHANGED <<gamePhase, characters>>

\* a variant of updatePartyReputation without the lower limit
updatePartyReputationNoFloor(change) ==
    /\ party' = [party EXCEPT !.reputation = Min(20, party.reputation + change)]
    /\ lastCall' = [op |-> "updatePartyReputation", arg |-> change, ret |-> Void,
                    before |-> Undefined]
    /\ UNCHANGED <<gamePhase, scenario, characters, sinceInfuse, campaign>>

updatePartyReputation(change) ==
    /\ party' = [party EXCEPT !.reputation = Max(-20, Min(20, party.reputation + change))]
    /\ lastCall' = [op |-> "updatePartyReputation", arg |-> change, ret |-> Void,
                    before |-> Undefined]
    /\ UNCHANGED <<gamePhase, scenario, characters, sinceInfuse, campaign>>

updateReputation(change) ==
    /\ campaign' = [campaign EXCEPT
                      !.reputation = Max(-20, Min(20, campaign.reputation + change))]
    /\ lastCall' = [op |-> "updateReputation", arg |-> change, ret |-> Void,
                    before |-> Undefined]
    /\ UNCHANGED <<gamePhase, scenario, characters, sinceInfuse, party>>

\* a variant of updateProsperity whose lower limit is 0
updateProsperityFloorZero(change) ==
    /\ campaign' = [campaign EXCEPT !.prosperity = Max(0, campaign.prosperity + change)]
    /\ lastCall' = [op |-> "updateProsperity", arg |-> change, ret |-> Void,
                    before |-> Undefined]
    /\ UNCHANGED <<gamePhase, scenario, characters, sinceInfuse, party>>

updateProsperity(change) ==
    /\ campaign' = [campaign EXCEPT !.prosperity = Max(1, campaign.prosperity + change)]
    /\ lastCall' = [op |-> "updateProsperity", arg |-> change, ret |-> Void,
                    before |-> Undefined]
    /\ UNCHANGED <<gamePhase, scenario, characters, sinceInfuse, party>>

\* the changes the three are called with: small steps, and steps wider than
\* the whole reputation scale
Changes == ((-MaxChange)..MaxChange) \cup {-41, 41}

\* ---- the figures that are added, hindered, moved and removed ----
\* the conditions updateCharacter sets: none, or Immobilize
ConditionLists == {<<>>, <<Condition(IMMOBILIZE)>>}
\* the parties the scenario is started with
FigureParties == {<<"c1">>, <<"c1", "c2">>, <<"nobody", "c2">>}

\* ---- the parties whose scenario level is checked ----
\* six characters, each at the first, a middle or the last level
ScalingOrder  == <<"p1", "p2", "p3", "p4", "p5", "p6">>
ScalingLevels == {1, 5, 9}
\* the first n of the six characters for n = 0..6, and a list of five ids of
\* which one belongs to no character
ScalingParties ==
    {SubSeq(ScalingOrder, 1, n) : n \in 0..Len(ScalingOrder)}
        \cup {<<"p1", "p2", "nobody", "p3", "p4">>}

\* the store after addCharacter was called for each of the six characters
InitScaling ==
    /\ gamePhase = CAMPAIGN_MANAGEMENT
    /\ scenario = Null
    /\ characters \in {[id \in Range(ScalingOrder) |->
                            [id |-> id, level |-> levels[id], position |-> Null,
                             conditions |-> <<>>]] :
                        levels \in [Range(ScalingOrder) -> ScalingLevels]}
    /\ lastCall = [op |-> "addCharacter", arg |-> ScalingOrder[Len(ScalingOrder)],
                   ret |-> Void, before |-> Undefined]
    /\ sinceInfuse = <<>>
    /\ campaign = [reputation         |-> 0,
                   prosperity         |-> 1,
                   scenariosCompleted |-> {},
                   scenariosUnlocked  |-> {1}]
    /\ party = [location |-> "Gloomhaven", members |-> <<>>, reputation |-> 0]
    /\ replaced = Null
    /\ turnsTaken = 0

\* ---- the calls of the round and scenario operations that are checked ----
\* the elements that are infused and consumed
RoundElements == {"fire", "ice"}
InitiativeOrders ==
    {<<>>,
     <<InitiativeEntry("m1", "monster")>>,
     <<InitiativeEntry("c1", "player"), InitiativeEntry("m1", "monster")>>}
LifecycleScenarioIds == {1, 2}
\* the element the scenario operations are called with, with and without a scenario
IdleElements == {"fire"}
\* the initiative orders whose turns are taken: one or two figures, players
\* with or without a character and a monster
TurnOrders ==
    {<<InitiativeEntry("c1", "player")>>,
     <<InitiativeEntry("m1", "monster")>>,
     <<InitiativeEntry("c1", "player"), InitiativeEntry("m1", "monster")>>,
     <<InitiativeEntry("m1", "monster"), InitiativeEntry("c1", "player")>>,
     <<InitiativeEntry("c1", "player"), InitiativeEntry("c2", "player")>>}

\* the element tracker of the running scenario, Null without one
runningTracker == IF scenario = Null THEN Null ELSE scenario.elements


(***************************************************************************)
(* docs/TECHNICAL_SPEC.md : Attack Modifier Deck Management                *)
(***************************************************************************)
\* AttackModifierCard; value is 'null', '2x' or a number, the number written
\* as a numeral so that every value compares with 'null' and '2x'
AttackModifierCard(id, value, rolling, bless, curse) ==
    [id |-> id, value |-> value, rolling |-> rolling, bless |-> bless, curse |-> curse]

\* the cards the decks are made of: the Null, the critical and a +0 card of
\* STANDARD_MODIFIER_DECK, and a temporary bless card
ModifierCards ==
    {AttackModifierCard("null", "null", FALSE, FALSE, FALSE),
     AttackModifierCard("crit", "2x", FALSE, FALSE, FALSE),
     AttackModifierCard("plus0_0", "0", FALSE, FALSE, FALSE),
     AttackModifierCard("bless_0", "2x", FALSE, TRUE, FALSE)}

\* the orders of the cards S, without repetition
RECURSIVE Orders(_)
Orders(S) ==
    IF S = {} THEN {<<>>}
    ELSE UNION {{<<c>> \o rest : rest \in Orders(S \ {c})} : c \in S}

\* the orders a shuffle can leave the cards of pile in
Shuffles(pile) == Orders(Range(pile))

\* a deck as createFifthPlayerDeck builds it, over the given cards
AttackModifierDeck(cards) ==
    [cards          |-> cards,
     discardPile    |-> <<>>,
     blessCards     |-> Cardinality({i \in 1..Len(cards) : cards[i].bless}),
     curseCards     |-> Cardinality({i \in 1..Len(cards) : cards[i].curse}),
     needsReshuffle |-> FALSE]

Decks ==
    {AttackModifierDeck(cards) :
        cards \in UNION {Orders(S) : S \in {T \in SUBSET ModifierCards :
                                              Cardinality(T) \in 1..MaxDeck}}}

\* reshuffleDeck(deck): draw pile <- shuffled discard pile, discard pile <-
\* empty; order is the order the shuffle yields
reshuffleDeck(d, order) == [d EXCEPT !.cards = order, !.discardPile = <<>>]

\* Array.prototype.pop: the array without its last element
pop(array) == SubSeq(array, 1, Len(array) - 1)

\* (a variant that never refills the draw pile)
drawSingleModifierNoRefill(d, order) ==
    IF Len(d.cards) = 0
    THEN [deck |-> d, card |-> Undefined, thrown |-> "TypeError"]
    ELSE LET card   == d.cards[Len(d.cards)]
             popped == [d EXCEPT !.cards = pop(d.cards)]
             kept   == IF card.bless \/ card.curse
                       THEN [popped EXCEPT
                               !.blessCards = IF card.bless THEN @ - 1 ELSE @,
                               !.curseCards = IF card.curse THEN @ - 1 ELSE @]
                       ELSE [popped EXCEPT !.discardPile = Append(@, card)]
         IN  [deck   |-> IF card.value = "null" \/ card.value = "2x"
                         THEN [kept EXCEPT !.needsReshuffle = TRUE]
                         ELSE kept,
              card   |-> card,
              thrown |-> Undefined]

\* drawSingleModifier(deck): the deck it leaves and the card it returns, or
\* the TypeError of `card.bless` when pop() yields undefined; order is the
\* order a shuffle of the discard pile yields
drawSingleModifier(d, order) ==
    LET filled == IF Len(d.cards) = 0 THEN reshuffleDeck(d, order) ELSE d
    IN  IF Len(filled.cards) = 0
        THEN [deck |-> filled, card |-> Undefined, thrown |-> "TypeError"]
        ELSE LET card   == filled.cards[Len(filled.cards)]
                 popped == [filled EXCEPT !.cards = pop(filled.cards)]
                 kept   == IF card.bless \/ card.curse
                           THEN [popped EXCEPT
                                   !.blessCards = IF card.bless THEN @ - 1 ELSE @,
                                   !.curseCards = IF card.curse THEN @ - 1 ELSE @]
                           ELSE [popped EXCEPT !.discardPile = Append(@, card)]
             IN  [deck   |-> IF card.value = "null" \/ card.value = "2x"
                             THEN [kept EXCEPT !.needsReshuffle = TRUE]
                             ELSE kept,
                  card   |-> card,
                  thrown |-> Undefined]

DrawIdle == [pc |-> "idle", left |-> 0, drawn |-> <<>>, refilled |-> FALSE]

InitDeckIdle == deck = Null /\ drawing = DrawIdle

InitDeck == deck \in Decks /\ drawing = DrawIdle

\* drawAttackModifiers(deck, advantage, disadvantage) up to its first draw:
\* two draws with advantage or disadvantage alone, one draw otherwise
drawAttackModifiersEnter(advantage, disadvantage) ==
    /\ drawing.pc = "idle"
    /\ drawing' = [pc       |-> "drawing",
                   left     |-> IF advantage /\ disadvantage THEN 1
                                ELSE IF advantage \/ disadvantage THEN 2
                                ELSE 1,
                   drawn    |-> <<>>,
                   refilled |-> FALSE]
    /\ UNCHANGED deck

\* one call of drawSingleModifier within drawAttackModifiers
drawSingleModifierCall ==
    /\ drawing.pc = "drawing"
    /\ drawing.left > 0
    /\ \E order \in Shuffles(deck.discardPile) :
          LET result == drawSingleModifier(deck, order)
          IN  /\ deck' = result.deck
              /\ drawing' =
                    IF result.thrown # Undefined
                    THEN [drawing EXCEPT !.pc = "thrown"]
                    ELSE [drawing EXCEPT
                            !.left     = @ - 1,
                            !.drawn    = Append(@, result.card),
                            !.refilled = @ \/ Len(deck.cards) = 0]

\* the draw sequence is complete: a deck flagged for reshuffle is reshuffled
drawAttackModifiersComplete ==
    /\ drawing.pc = "drawing"
    /\ drawing.left = 0
    /\ drawing' = [drawing EXCEPT !.pc = "idle"]
    /\ IF deck.needsReshuffle
       THEN \E order \in Shuffles(deck.discardPile) :
               deck' = [reshuffleDeck(deck, order) EXCEPT !.needsReshuffle = FALSE]
       ELSE UNCHANGED deck


(***************************************************************************)
(* Specifications                                                          *)
(***************************************************************************)
InitPathIdle ==
    /\ fpStart = Null /\ fpGoal = Null /\ fpMap = <<>> /\ fpOptions = Null
    /\ fpResult = Pending /\ fpTrace = <<>> /\ fpAgain = Pending
    /\ fpSearch = SearchIdle

InitRingIdle == ringCenter = Null /\ ringRadius = 0 /\ ringResult = Pending

InitSightIdle ==
    /\ sightFrom = Null /\ sightTo = Null /\ sightRange = 0 /\ sightMap = <<>>
    /\ sightResult = Pending

InitGeoIdle == geoA = Null /\ geoB = Null /\ geoN = 0 /\ geoResult = Pending

\* no call of a hex function is under way
InitHexIdle == InitPathIdle /\ InitRingIdle /\ InitSightIdle /\ InitGeoIdle

\* the element tracker: scenarios are started, elements infused, consumed, waned
InitElements == InitStore /\ InitHexIdle /\ InitDeckIdle

NextElements ==
    \/ \E id \in ScenarioIds, partyMembers \in PartyLists :
          startScenario(id, partyMembers) /\ UNCHANGED <<campaignVars, pathVars, ringVars, sightVars, geoVars, deckVars>>
    \/ \E e \in Elements : infuseElement(e) /\ UNCHANGED <<campaignVars, pathVars, ringVars, sightVars, geoVars, deckVars>>
    \/ \E e \in Elements : consumeElement(e) /\ UNCHANGED <<campaignVars, pathVars, ringVars, sightVars, geoVars, deckVars>>
    \/ waneElements /\ UNCHANGED <<campaignVars, pathVars, ringVars, sightVars, geoVars, deckVars>>

SpecElements == InitElements /\ [][NextElements]_vars

\* figures on the board: characters are added, scenarios started, characters moved
InitBoard == InitStore /\ InitHexIdle /\ InitDeckIdle

NextBoard ==
    \/ \E id \in CharIds, level \in 1..MaxLevel, pos \in AddPositions :
          addCharacter(id, level, pos) /\ UNCHANGED <<campaignVars, pathVars, ringVars, sightVars, geoVars, deckVars>>
    \/ \E id \in ScenarioIds, partyMembers \in PartyLists :
          startScenario(id, partyMembers) /\ UNCHANGED <<campaignVars, pathVars, ringVars, sightVars, geoVars, deckVars>>
    \/ \E id \in PartyIds, target \in MoveTargets :
          moveCharacter(id, target) /\ UNCHANGED <<campaignVars, pathVars, ringVars, sightVars, geoVars, deckVars>>

SpecBoard == InitBoard /\ [][NextBoard]_vars

\* figures of a scenario: characters are added to the store (before a scenario
\* runs) and to the party, given conditions, placed by startScenario, moved and
\* removed
InitFigures == InitStore /\ InitHexIdle /\ InitDeckIdle

NextFigures ==
    \/ \E id \in CharIds, level \in 1..MaxLevel, pos \in AddPositions :
          /\ scenario = Null
          /\ addCharacter(id, level, pos)
          /\ UNCHANGED <<campaignVars, pathVars, ringVars, sightVars, geoVars, deckVars>>
    \/ \E id \in CharIds :
          addToParty(id)
          /\ UNCHANGED <<replaced, turnsTaken, pathVars, ringVars, sightVars, geoVars, deckVars>>
    \/ \E id \in ScenarioIds, partyMembers \in FigureParties :
          startScenario(id, partyMembers)
          /\ UNCHANGED <<campaignVars, pathVars, ringVars, sightVars, geoVars, deckVars>>
    \/ \E id \in PartyIds, conditions \in ConditionLists :
          updateCharacter(id, [conditions |-> conditions])
          /\ UNCHANGED <<campaignVars, pathVars, ringVars, sightVars, geoVars, deckVars>>
    \/ \E id \in PartyIds, target \in MoveTargets :
          moveCharacter(id, target)
          /\ UNCHANGED <<campaignVars, pathVars, ringVars, sightVars, geoVars, deckVars>>
    \/ \E id \in PartyIds :
          removeCharacter(id)
          /\ UNCHANGED <<replaced, turnsTaken, pathVars, ringVars, sightVars, geoVars, deckVars>>

SpecFigures == InitFigures /\ [][NextFigures]_vars

\* rounds of a scenario: phases, initiative orders, turns, round ends, elements
InitRound == InitStore /\ InitHexIdle /\ InitDeckIdle

NextRound ==
    \/ \E id \in ScenarioIds :
          startScenario(id, <<>>)
          /\ UNCHANGED <<campaignVars, pathVars, ringVars, sightVars, geoVars, deckVars>>
    \/ /\ scenario # Null => scenario.round < MaxRound
       /\ endRound
       /\ UNCHANGED <<campaignVars, pathVars, ringVars, sightVars, geoVars, deckVars>>
    \/ \E phase \in RoundPhases :
          updateScenarioPhase(phase)
          /\ UNCHANGED <<campaignVars, pathVars, ringVars, sightVars, geoVars, deckVars>>
    \/ \E order \in InitiativeOrders :
          setInitiativeOrder(order)
          /\ UNCHANGED <<campaignVars, pathVars, ringVars, sightVars, geoVars, deckVars>>
    \/ nextTurn /\ UNCHANGED <<campaignVars, pathVars, ringVars, sightVars, geoVars, deckVars>>
    \/ \E e \in RoundElements :
          infuseElement(e) /\ UNCHANGED <<campaignVars, pathVars, ringVars, sightVars, geoVars, deckVars>>
    \/ \E e \in RoundElements :
          consumeElement(e) /\ UNCHANGED <<campaignVars, pathVars, ringVars, sightVars, geoVars, deckVars>>
    \/ waneElements /\ UNCHANGED <<campaignVars, pathVars, ringVars, sightVars, geoVars, deckVars>>

SpecRound == InitRound /\ [][NextRound]_vars

\* turns of a round: an initiative order is set and nextTurn called again
\* and again
InitTurns == InitStore /\ InitHexIdle /\ InitDeckIdle

NextTurns ==
    \/ \E id \in CharIds, level \in 1..MaxLevel, pos \in AddPositions :
          /\ scenario = Null
          /\ addCharacter(id, level, pos)
          /\ UNCHANGED <<campaignVars, pathVars, ringVars, sightVars, geoVars, deckVars>>
    \/ \E id \in ScenarioIds, partyMembers \in FigureParties :
          /\ startScenario(id, partyMembers)
          /\ turnsTaken' = 0
          /\ UNCHANGED <<campaign, party, replaced, pathVars, ringVars, sightVars, geoVars, deckVars>>
    \/ \E order \in TurnOrders :
          /\ setInitiativeOrder(order)
          /\ turnsTaken' = 0
          /\ UNCHANGED <<campaign, party, replaced, pathVars, ringVars, sightVars, geoVars, deckVars>>
    \/ /\ nextTurn
       /\ turnsTaken' = Min(turnsTaken + 1, MaxTurns)
       /\ UNCHANGED <<campaign, party, replaced, pathVars, ringVars, sightVars, geoVars, deckVars>>

SpecTurns == InitTurns /\ [][NextTurns]_vars

\* the game phase: set directly, and by starting and ending scenarios, while
\* characters are added and elements infused
InitPhases == InitStore /\ InitHexIdle /\ InitDeckIdle

NextPhases ==
    \/ \E phase \in GamePhases :
          setGamePhase(phase)
          /\ UNCHANGED <<campaignVars, pathVars, ringVars, sightVars, geoVars, deckVars>>
    \/ \E id \in LifecycleScenarioIds :
          startScenario(id, <<>>)
          /\ UNCHANGED <<campaignVars, pathVars, ringVars, sightVars, geoVars, deckVars>>
    \/ \E success \in BOOLEAN :
          endScenario(success)
          /\ UNCHANGED <<replaced, turnsTaken, pathVars, ringVars, sightVars, geoVars, deckVars>>
    \/ \E id \in CharIds, level \in 1..MaxLevel, pos \in AddPositions :
          addCharacter(id, level, pos)
          /\ UNCHANGED <<campaignVars, pathVars, ringVars, sightVars, geoVars, deckVars>>
    \/ \E e \in RoundElements :
          infuseElement(e)
          /\ UNCHANGED <<campaignVars, pathVars, ringVars, sightVars, geoVars, deckVars>>

SpecPhases == InitPhases /\ [][NextPhases]_vars

\* the scenario operations called without an active scenario, before the first
\* scenario and after scenarios in which the character was moved and elements
\* were infused, consumed and waned
InitIdle == InitStore /\ InitHexIdle /\ InitDeckIdle

NextIdle ==
    \/ \E level \in 1..MaxLevel, pos \in AddPositions :
          addCharacter("c1", level, pos)
          /\ UNCHANGED <<campaignVars, pathVars, ringVars, sightVars, geoVars, deckVars>>
    \/ \E id \in ScenarioIds :
          startScenario(id, <<"c1">>)
          /\ UNCHANGED <<campaignVars, pathVars, ringVars, sightVars, geoVars, deckVars>>
    \/ \E success \in BOOLEAN :
          endScenario(success)
          /\ UNCHANGED <<replaced, turnsTaken, pathVars, ringVars, sightVars, geoVars, deckVars>>
    \/ \E id \in PartyIds, target \in MoveTargets :
          moveCharacter(id, target)
          /\ UNCHANGED <<campaignVars, pathVars, ringVars, sightVars, geoVars, deckVars>>
    \/ \E phase \in RoundPhases :
          /\ scenario = Null
          /\ updateScenarioPhase(phase)
          /\ UNCHANGED <<campaignVars, pathVars, ringVars, sightVars, geoVars, deckVars>>
    \/ \E order \in InitiativeOrders :
          /\ scenario = Null
          /\ setInitiativeOrder(order)
          /\ UNCHANGED <<campaignVars, pathVars, ringVars, sightVars, geoVars, deckVars>>
    \/ scenario = Null /\ nextTurn /\ UNCHANGED <<campaignVars, pathVars, ringVars, sightVars, geoVars, deckVars>>
    \/ /\ scenario = Null
       /\ endRound
       /\ UNCHANGED <<campaignVars, pathVars, ringVars, sightVars, geoVars, deckVars>>
    \/ \E e \in IdleElements :
          infuseElement(e) /\ UNCHANGED <<campaignVars, pathVars, ringVars, sightVars, geoVars, deckVars>>
    \/ \E e \in IdleElements :
          consumeElement(e) /\ UNCHANGED <<campaignVars, pathVars, ringVars, sightVars, geoVars, deckVars>>
    \/ waneElements /\ UNCHANGED <<campaignVars, pathVars, ringVars, sightVars, geoVars, deckVars>>
    \/ \E e \in IdleElements :
          isElementAvailableCall(e)
          /\ UNCHANGED <<campaignVars, pathVars, ringVars, sightVars, geoVars, deckVars>>

SpecIdle == InitIdle /\ [][NextIdle]_vars

\* scenarios started and ended one after the other
InitLifecycle == InitStore /\ InitHexIdle /\ InitDeckIdle

NextLifecycle ==
    \/ \E id \in LifecycleScenarioIds :
          /\ startScenario(id, <<>>)
          /\ replaced' = runningTracker
          /\ UNCHANGED <<campaign, party, turnsTaken, pathVars, ringVars, sightVars, geoVars, deckVars>>
    \/ \E success \in BOOLEAN :
          /\ endScenario(success)
          /\ replaced' = runningTracker
          /\ UNCHANGED <<turnsTaken, pathVars, ringVars, sightVars, geoVars, deckVars>>
    \/ \E e \in RoundElements :
          infuseElement(e) /\ UNCHANGED <<campaignVars, pathVars, ringVars, sightVars, geoVars, deckVars>>
    \/ waneElements /\ UNCHANGED <<campaignVars, pathVars, ringVars, sightVars, geoVars, deckVars>>

SpecLifecycle == InitLifecycle /\ [][NextLifecycle]_vars

\* scenarios started for parties of every size
InitScalingCalls == InitScaling /\ InitHexIdle /\ InitDeckIdle

NextScaling ==
    \E id \in ScenarioIds, partyMembers \in ScalingParties :
        startScenario(id, partyMembers)
        /\ UNCHANGED <<campaignVars, pathVars, ringVars, sightVars, geoVars, deckVars>>

SpecScaling == InitScalingCalls /\ [][NextScaling]_vars

\* reputation and prosperity of the campaign and the party
InitCampaign == InitStore /\ InitHexIdle /\ InitDeckIdle

NextCampaign ==
    \/ \E change \in Changes :
          updateReputation(change)
          /\ UNCHANGED <<replaced, turnsTaken, pathVars, ringVars, sightVars, geoVars, deckVars>>
    \/ \E change \in Changes :
          updatePartyReputation(change)
          /\ UNCHANGED <<replaced, turnsTaken, pathVars, ringVars, sightVars, geoVars, deckVars>>
    \/ \E change \in Changes :
          /\ campaign.prosperity + change <= MaxProsperity
          /\ updateProsperity(change)
          /\ UNCHANGED <<replaced, turnsTaken, pathVars, ringVars, sightVars, geoVars, deckVars>>

SpecCampaign == InitCampaign /\ [][NextCampaign]_vars

\* calls of getHexRing
InitRingCalls == InitStore /\ InitPathIdle /\ InitRing /\ InitSightIdle /\ InitGeoIdle /\ InitDeckIdle

NextRing == getHexRingCall /\ UNCHANGED <<storeVars, campaignVars, pathVars, sightVars, geoVars, deckVars>>

SpecRing == InitRingCalls /\ [][NextRing]_vars

\* calls of findPath
InitPathCalls == InitStore /\ InitPath /\ InitRingIdle /\ InitSightIdle /\ InitGeoIdle /\ InitDeckIdle

NextPath == findPathCall /\ UNCHANGED <<storeVars, campaignVars, ringVars, sightVars, geoVars, deckVars>>

SpecPath == InitPathCalls /\ [][NextPath]_vars

\* findPath called twice with the same arguments
InitRunCalls == InitStore /\ InitRuns /\ InitRingIdle /\ InitSightIdle /\ InitGeoIdle /\ InitDeckIdle

NextRuns ==
    \/ findPathFirstRun /\ UNCHANGED <<storeVars, campaignVars, ringVars, sightVars, geoVars, deckVars>>
    \/ findPathSecondRun /\ UNCHANGED <<storeVars, campaignVars, ringVars, sightVars, geoVars, deckVars>>

SpecRuns == InitRunCalls /\ [][NextRuns]_vars

\* one call of findPath, step by step; the loop runs on until it returns
InitSearchCalls == InitStore /\ InitHexIdle /\ InitDeckIdle

NextSearch ==
    \/ \E start \in Starts, goal \in Goals, gameMap \in SearchBoards,
          options \in SearchOptions :
          findPathEnter(start, goal, gameMap, options)
          /\ UNCHANGED <<storeVars, campaignVars, ringVars, sightVars, geoVars, deckVars>>
    \/ findPathIterate /\ UNCHANGED <<storeVars, campaignVars, ringVars, sightVars, geoVars, deckVars>>

SpecSearch == InitSearchCalls /\ [][NextSearch]_vars

\* the attack modifier deck: draw sequences with and without advantage
InitDeckCalls == InitStore /\ InitHexIdle /\ InitDeck

NextDeck ==
    \/ \E advantage \in BOOLEAN, disadvantage \in BOOLEAN :
          drawAttackModifiersEnter(advantage, disadvantage)
          /\ UNCHANGED <<storeVars, campaignVars, pathVars, ringVars, sightVars, geoVars>>
    \/ drawSingleModifierCall
       /\ UNCHANGED <<storeVars, campaignVars, pathVars, ringVars, sightVars, geoVars>>
    \/ drawAttackModifiersComplete
       /\ UNCHANGED <<storeVars, campaignVars, pathVars, ringVars, sightVars, geoVars>>

SpecDeck == InitDeckCalls /\ [][NextDeck]_vars


\* calls of hasLineOfSight and getValidTargets
InitSightCalls == InitStore /\ InitPathIdle /\ InitRingIdle /\ InitSight /\ InitGeoIdle /\ InitDeckIdle

NextSight ==
    \/ hasLineOfSightCall /\ UNCHANGED <<storeVars, campaignVars, pathVars, ringVars, geoVars, deckVars>>
    \/ getValidTargetsCall /\ UNCHANGED <<storeVars, campaignVars, pathVars, ringVars, geoVars, deckVars>>

SpecSight == InitSightCalls /\ [][NextSight]_vars

\* a line of sight looked along from either end
InitMirrorCalls == InitStore /\ InitPathIdle /\ InitRingIdle /\ InitMirror /\ InitGeoIdle /\ InitDeckIdle

NextMirror ==
    \/ hasLineOfSightThere /\ UNCHANGED <<storeVars, campaignVars, pathVars, ringVars, geoVars, deckVars>>
    \/ hasLineOfSightBack /\ UNCHANGED <<storeVars, campaignVars, pathVars, ringVars, geoVars, deckVars>>

SpecMirror == InitMirrorCalls /\ [][NextMirror]_vars

\* calls of getHexesInRange, getNeighbors, getNeighbor, isAdjacent and getHexLine
InitGeoCalls == InitStore /\ InitPathIdle /\ InitRingIdle /\ InitSightIdle /\ InitGeo /\ InitDeckIdle

NextGeo ==
    \/ getHexesInRangeCall /\ UNCHANGED <<storeVars, campaignVars, pathVars, ringVars, sightVars, deckVars>>
    \/ getNeighborsCall /\ UNCHANGED <<storeVars, campaignVars, pathVars, ringVars, sightVars, deckVars>>
    \/ \E direction \in 0..5 :
          getNeighborCall(direction) /\ UNCHANGED <<storeVars, campaignVars, pathVars, ringVars, sightVars, deckVars>>
    \/ isAdjacentCall /\ UNCHANGED <<storeVars, campaignVars, pathVars, ringVars, sightVars, deckVars>>
    \/ getHexLineCall /\ UNCHANGED <<storeVars, campaignVars, pathVars, ringVars, sightVars, deckVars>>

SpecGeo == InitGeoCalls /\ [][NextGeo]_vars

\* calls of hexDistance
InitDistanceCalls == InitStore /\ InitPathIdle /\ InitRingIdle /\ InitSightIdle /\ InitGeo /\ InitDeckIdle

NextDistance == hexDistanceCall /\ UNCHANGED <<storeVars, campaignVars, pathVars, ringVars, sightVars, deckVars>>

SpecDistance == InitDistanceCalls /\ [][NextDistance]_vars


(***************************************************************************)
(* Claims                                                                  *)
(***************************************************************************)
DistinctSeq(seq) == \A i, j \in 1..Len(seq) : i # j => seq[i] # seq[j]

(* ---- routes on a board, for the claims about findPath ---- *)
\* entry[k] is the cost of entering the hex at key k, 0 when it may not be entered.
\* One round of relaxation of the costs dist of the cheapest routes from the start.
\* the keys of the six hexes at hexDistance 1 from the hex at key k
adjacentKeys(k) ==
    {<<k[1] + 1, k[2]>>, <<k[1] + 1, k[2] - 1>>, <<k[1], k[2] - 1>>,
     <<k[1] - 1, k[2]>>, <<k[1] - 1, k[2] + 1>>, <<k[1], k[2] + 1>>}

relaxRoutes(dist, entry) ==
    [k \in DOMAIN dist |->
        IF k \in DOMAIN entry /\ entry[k] > 0
        THEN LET via == {dist[n] + entry[k] :
                            n \in {m \in adjacentKeys(k) \cap DOMAIN dist :
                                     dist[m] < Infinity}}
             IN  IF via = {} THEN dist[k]
                 ELSE Min(dist[k], CHOOSE c \in via : \A d \in via : c <= d)
        ELSE dist[k]]

RECURSIVE cheapestRoutes(_, _)
cheapestRoutes(dist, entry) ==
    LET next == relaxRoutes(dist, entry)
    IN  IF next = dist THEN dist ELSE cheapestRoutes(next, entry)

\* the least summed entry cost of a route of pairwise adjacent enterable board
\* hexes from start to goal (the start itself is not entered); Infinity if none
minRouteCost(start, goal, entry) ==
    LET keys  == DOMAIN entry \cup {hexToKey(start)}
        dist0 == [k \in keys |-> IF k = hexToKey(start) THEN 0 ELSE Infinity]
    IN  mapGet(cheapestRoutes(dist0, entry), hexToKey(goal), Infinity)

\* the entry costs findPath works with
codeEntry ==
    [k \in DOMAIN fpMap |->
        IF isPassable(fpMap[k], fpOptions) THEN getMovementCost(fpMap[k], fpOptions) ELSE 0]

RECURSIVE sumSeq(_)
sumSeq(seq) == IF seq = <<>> THEN 0 ELSE Head(seq) + sumSeq(Tail(seq))

fpCalled  == fpResult # Pending
fpInRange == hexDistance(fpStart, fpGoal) <= fpOptions.range
fpNormalOptions ==
    /\ ~fpOptions.canFly /\ ~fpOptions.canJump /\ ~fpOptions.ignoreDifficultTerrain
    /\ ~fpOptions.ignoreObstacles /\ ~fpOptions.ignoreFigures
\* the board with every feature hex normal and empty, but for terrain t at <<1, 0>>
fpBoardWith(t) ==
    \A k \in FeatureKeys :
        /\ fpMap[k].occupant = Undefined
        /\ fpMap[k].terrain = IF k = <<1, 0>> THEN t ELSE NORMAL

\* C1: findPath is a shortest-path search: when hexDistance(start, goal) <= range
\* and some route of adjacent passable board hexes leads from start to goal, the
\* result is valid and its cost is the least summed entry cost of such a route;
\* when there is no route the result is invalid. On the open board
\* (0,0) -> (2,0) is a 3-hex path of cost 2, and of cost 3 with (1,0) Difficult.
C1_ShortestPath ==
    (fpCalled /\ fpInRange) =>
        LET best == minRouteCost(fpStart, fpGoal, codeEntry)
        IN  /\ IF best < Infinity
               THEN fpResult.isValid /\ fpResult.cost = best
               ELSE ~fpResult.isValid
            /\ (fpNormalOptions /\ fpStart = Hex(0, 0) /\ fpGoal = Hex(2, 0)) =>
                  /\ fpBoardWith(NORMAL) =>
                        fpResult.isValid /\ fpResult.cost = 2 /\ Len(fpResult.path) = 3
                  /\ fpBoardWith(DIFFICULT) => fpResult.isValid /\ fpResult.cost = 3

\* C1 witness: a valid result whose route is a detour of four entered hexes
\* around blocked hexes, dearer than the straight line.
C1_Witness ==
    /\ fpCalled /\ fpInRange /\ fpResult.isValid
    /\ fpResult.cost = 4 /\ Len(fpResult.path) = 4
    /\ hexDistance(fpStart, fpGoal) = 2

\* C2: findPath never returns isValid = true with a cost above options.range.
C2_CostWithinRange ==
    (fpCalled /\ fpResult.isValid) => fpResult.cost <= fpOptions.range

\* C9: in normal movement (no flying, no jumping) findPath enters a board hex
\* only if (its terrain is neither Wall nor Obstacle, or ignoreObstacles) and
\* (it has no occupant, or ignoreFigures); a Difficult hex costs 2 unless
\* ignoreDifficultTerrain, every other hex 1.
C9_NormalMovement ==
    (fpCalled /\ ~fpOptions.canFly /\ ~fpOptions.canJump /\ fpResult.isValid) =>
        LET entered == [i \in 1..(Len(fpResult.path) - 1) |->
                          fpMap[hexToKey(fpResult.path[i + 1])]]
        IN  /\ \A i \in 1..Len(entered) :
                  /\ entered[i].terrain \notin {WALL, OBSTACLE} \/ fpOptions.ignoreObstacles
                  /\ entered[i].occupant = Undefined \/ fpOptions.ignoreFigures
            /\ fpResult.cost =
                  sumSeq([i \in 1..Len(entered) |->
                            IF entered[i].terrain = DIFFICULT
                                  /\ ~fpOptions.ignoreDifficultTerrain
                            THEN 2 ELSE 1])

\* the entry costs of jumping as claimed: every hex but a Wall, at cost 1, or 2
\* for a Difficult hex unless ignoreDifficultTerrain
jumpEntry ==
    [k \in DOMAIN fpMap |->
        IF fpMap[k].terrain = WALL THEN 0
        ELSE IF fpMap[k].terrain = DIFFICULT /\ ~fpOptions.ignoreDifficultTerrain THEN 2
        ELSE 1]

\* C10: in jumping movement (canJump, not canFly) every board hex that is not a
\* Wall can be entered, Obstacle and occupied hexes included, whatever
\* ignoreObstacles and ignoreFigures say; entering costs 1, or 2 for a Difficult
\* hex when ignoreDifficultTerrain is not set.
C10_JumpingMovement ==
    (fpCalled /\ fpOptions.canJump /\ ~fpOptions.canFly) =>
        /\ \A k \in DOMAIN fpMap :
              /\ isPassable(fpMap[k], fpOptions) <=> (fpMap[k].terrain # WALL)
              /\ isPassable(fpMap[k], fpOptions) =>
                    getMovementCost(fpMap[k], fpOptions) = jumpEntry[k]
        /\ fpInRange =>
              LET best == minRouteCost(fpStart, fpGoal, jumpEntry)
              IN  IF best < Infinity
                  THEN fpResult.isValid /\ fpResult.cost = best
                  ELSE ~fpResult.isValid

\* C10 witness: a jump whose path enters an occupied Obstacle hex although
\* neither ignoreObstacles nor ignoreFigures is set.
C10_Witness ==
    /\ fpCalled /\ fpOptions.canJump /\ ~fpOptions.canFly
    /\ ~fpOptions.ignoreObstacles /\ ~fpOptions.ignoreFigures
    /\ fpResult.isValid
    /\ \E i \in 2..Len(fpResult.path) :
          /\ fpMap[hexToKey(fpResult.path[i])].terrain = OBSTACLE
          /\ fpMap[hexToKey(fpResult.path[i])].occupant # Undefined

\* the entry costs of flying as claimed: every hex but a Wall or an Obstacle, at cost 1
flyEntry ==
    [k \in DOMAIN fpMap |-> IF fpMap[k].terrain \in {WALL, OBSTACLE} THEN 0 ELSE 1]

C12_ValidPathShape ==
    /\ (fpCalled /\ fpResult.isValid) =>
          LET path == fpResult.path
          IN  /\ Len(path) >= 1
              /\ path[1] = fpStart
              /\ path[Len(path)] = fpGoal
              /\ \A i \in 1..(Len(path) - 1) : hexDistanceSum(path[i], path[i + 1]) = 2
              /\ \A i \in 2..Len(path) :
                    /\ hexToKey(path[i]) \in DOMAIN fpMap
                    /\ isPassable(fpMap[hexToKey(path[i])], fpOptions)
              /\ fpResult.cost =
                    sumSeq([i \in 1..(Len(path) - 1) |->
                              getMovementCost(fpMap[hexToKey(path[i + 1])], fpOptions)])
    /\ (fpCalled /\ fpStart = fpGoal) =>
          fpResult = PathResult(<<fpStart>>, 0, TRUE)

\* C12 witness: a valid path of three hexes that enters a Difficult hex at cost 2.
C12_Witness ==
    /\ fpCalled /\ fpResult.isValid /\ fpStart # fpGoal
    /\ Len(fpResult.path) = 3 /\ fpResult.cost = 3
    /\ fpResult.path[1] = fpStart /\ fpResult.path[3] = fpGoal

\* C13: findPath fails fast: with hexDistance(start, goal) > range the result is
\* invalid whatever the board; and every invalid result has cost Infinity and an
\* empty path.
C13_FailFast ==
    fpCalled =>
        /\ hexDistance(fpStart, fpGoal) > fpOptions.range => ~fpResult.isValid
        /\ ~fpResult.isValid => fpResult.cost = Infinity /\ fpResult.path = <<>>

\* C13 witness: the goal is beyond the range, a route to it exists on the
\* board, and the result is invalid with cost Infinity and no path.
C13_Witness ==
    /\ fpCalled /\ hexDistance(fpStart, fpGoal) > fpOptions.range
    /\ minRouteCost(fpStart, fpGoal, codeEntry) < Infinity
    /\ ~fpResult.isValid /\ fpResult.cost = Infinity /\ fpResult.path = <<>>

\* the costs of the cheapest routes to the goal after one more round of
\* relaxation; entry as for relaxRoutes
relaxRemaining(rem, entry) ==
    [k \in DOMAIN rem |->
        LET via == {entry[n] + rem[n] :
                       n \in {m \in adjacentKeys(k) \cap DOMAIN entry :
                                entry[m] > 0 /\ rem[m] < Infinity}}
        IN  IF via = {} THEN rem[k]
            ELSE Min(rem[k], CHOOSE c \in via : \A d \in via : c <= d)]

RECURSIVE cheapestRemaining(_, _)
cheapestRemaining(rem, entry) ==
    LET next == relaxRemaining(rem, entry)
    IN  IF next = rem THEN rem ELSE cheapestRemaining(next, entry)

\* for the start and every board hex n, the least summed entry cost of a route
\* from n to goal (n itself is not entered); Infinity if there is none
remainingCosts(start, goal, entry) ==
    LET keys == DOMAIN entry \cup {hexToKey(start), hexToKey(goal)}
        rem0 == [k \in keys |-> IF k = hexToKey(goal) THEN 0 ELSE Infinity]
    IN  cheapestRemaining(rem0, entry)

\* hexDistance to the goal is at most one more than that of each neighbor, and
\* at most the cost rem[n] of the cheapest route to the goal, for the hexes n of rem
heuristicBelow(rem, goal) ==
    \A k \in DOMAIN rem :
        /\ \A n \in adjacentKeys(k) :
              hexDistance(keyToHex(k), goal) <= 1 + hexDistance(keyToHex(n), goal)
        /\ hexDistance(keyToHex(k), goal) <= rem[k]

\* C21: the heuristic of the search is consistent and admissible: for every hex
\* n and each of its neighbors n', hexDistance(n, goal) <= 1 + hexDistance(n', goal);
\* every entry cost of getMovementCost is >= 1; so hexDistance(n, goal) never
\* exceeds the cost of the cheapest route from n to the goal.
C21_HeuristicAdmissible ==
    fpCalled =>
        /\ \A k \in DOMAIN fpMap, o \in MovementOptions :
              getMovementCost(fpMap[k], o) >= 1
        /\ \A rem \in {remainingCosts(fpStart, fpGoal, codeEntry)} :
              heuristicBelow(rem, fpGoal)

\* C21 witness: a route was found whose cost is above the heuristic of the start.
C21_Witness ==
    /\ fpCalled /\ fpResult.isValid
    /\ hexDistance(fpStart, fpGoal) = 2
    /\ fpResult.cost > 2
    /\ remainingCosts(fpStart, fpGoal, codeEntry)[hexToKey(fpStart)] = fpResult.cost

\* the keys of the six neighbors of the hex at key k in the order E, NE, NW, W, SW, SE
canonicalNeighborKeys(k) ==
    << <<k[1] + 1, k[2]>>, <<k[1] + 1, k[2] - 1>>, <<k[1], k[2] - 1>>,
       <<k[1] - 1, k[2]>>, <<k[1] - 1, k[2] + 1>>, <<k[1], k[2] + 1>> >>

\* the open nodes of a loop iteration that have the lowest f-score
lowestOpen(it) ==
    {i \in 1..Len(it.openSet) :
        \A j \in 1..Len(it.openSet) : it.fScore[it.openSet[j]] >= it.fScore[it.openSet[i]]}

\* C22: findPath is deterministic: a second run on the same start, goal, board
\* and options returns the same path, cost and isValid; every loop iteration
\* expands, among the open nodes with the lowest f, the one inserted earliest;
\* and the neighbors of the expanded node enter the open set in the order
\* E, NE, NW, W, SW, SE.
C22_Deterministic ==
    /\ fpAgain # Pending => fpAgain = fpResult
    /\ \A t \in 1..Len(fpTrace) :
          LET it == fpTrace[t]
          IN  /\ lowestOpen(it) # {}
              /\ it.current = it.openSet[CHOOSE i \in lowestOpen(it) :
                                            \A j \in lowestOpen(it) : i <= j]
    /\ \A t \in 1..(Len(fpTrace) - 1) :
          LET rest  == setDelete(fpTrace[t].openSet, fpTrace[t].current)
              after == fpTrace[t + 1].openSet
          IN  after = rest \o SelectSeq(canonicalNeighborKeys(fpTrace[t].current),
                                        LAMBDA k : k \in Range(after) \ Range(rest))

\* C22 witness: both runs returned the same valid path, and in some iteration
\* of the first several open nodes shared the lowest f.
C22_Witness ==
    /\ fpAgain # Pending /\ fpAgain = fpResult /\ fpResult.isValid
    /\ \E t \in 1..Len(fpTrace) : Cardinality(lowestOpen(fpTrace[t])) >= 2

(* ---- line of sight and targets ---- *)
losCalled     == sightResult # Pending /\ sightResult.op = "hasLineOfSight"
targetsCalled == sightResult # Pending /\ sightResult.op = "getValidTargets"

\* the hexes of getHexLine(from, to) other than its first and last element
\* that are on the board with terrain Wall or Obstacle
sightBlockers(from, to, gameMap) ==
    LET line == getHexLine(from, to)
    IN  {line[i] : i \in {j \in 2..(Len(line) - 1) :
                            /\ hexToKey(line[j]) \in DOMAIN gameMap
                            /\ gameMap[hexToKey(line[j])].terrain \in {WALL, OBSTACLE}}}

C15_SelfAndAdjacentSight ==
    (losCalled /\ (sightFrom = sightTo \/ hexDistance(sightFrom, sightTo) = 1)) =>
        sightResult.value = TRUE

\* C15 witness: a hex sees the Wall hex next to it.
C15_Witness ==
    /\ losCalled /\ hexDistance(sightFrom, sightTo) = 1
    /\ hexToKey(sightTo) \in DOMAIN sightMap
    /\ sightMap[hexToKey(sightTo)].terrain = WALL
    /\ sightResult.value = TRUE

\* the board hexes that hold a figure
occupiedHexes(gameMap) == {gameMap[k] : k \in {b \in DOMAIN gameMap : gameMap[b].occupant # Undefined}}

\* C16: getValidTargets(attacker, 0, board) is exactly the occupied board hexes
\* adjacent to the attacker; for range > 0 it is exactly the occupied board
\* hexes h other than the attacker's hex with hexDistance(attacker, h) <= range
\* and hasLineOfSight(attacker, h, board).
C16_ValidTargets ==
    targetsCalled =>
        /\ DistinctSeq(sightResult.value)
        /\ Range(sightResult.value) =
              IF sightRange = 0
              THEN {h \in occupiedHexes(sightMap) : hexDistanceSum(sightFrom, Hex(h.q, h.r)) = 2}
              ELSE {h \in occupiedHexes(sightMap) :
                      /\ hexDistanceSum(sightFrom, Hex(h.q, h.r)) <= 2 * sightRange
                      /\ Hex(h.q, h.r) # sightFrom
                      /\ sightBlockers(sightFrom, Hex(h.q, h.r), sightMap) = {}}

\* C16 witness: a ranged call from an occupied hex that returns some target and
\* leaves out an occupied hex within range for want of a line of sight.
C16_Witness ==
    /\ targetsCalled /\ sightRange > 0 /\ sightResult.value # <<>>
    /\ hexToKey(sightFrom) \in DOMAIN sightMap
    /\ sightMap[hexToKey(sightFrom)].occupant # Undefined
    /\ \E h \in occupiedHexes(sightMap) :
          /\ hexDistance(sightFrom, Hex(h.q, h.r)) <= sightRange
          /\ ~hasLineOfSight(sightFrom, Hex(h.q, h.r), sightMap)
          /\ h \notin Range(sightResult.value)

(* ---- the basic hex operations ---- *)
geoCalled(op) == geoResult # Pending /\ geoResult.op = op

\* C17: getHexesInRange(c, n) returns exactly the hexes h with
\* hexDistance(c, h) <= n, each once, hence 3n^2 + 3n + 1 hexes.
C17_HexesInRange ==
    geoCalled("getHexesInRange") =>
        LET span   == (-geoN)..geoN
            within == {h \in {hexAdd(geoA, Hex(dq, dr)) : dq \in span, dr \in span} :
                          hexDistanceSum(geoA, h) <= 2 * geoN}
        IN  /\ Range(geoResult.value) = within
            /\ DistinctSeq(geoResult.value)
            /\ Len(geoResult.value) = 3 * geoN * geoN + 3 * geoN + 1

\* C17 witness: a call with n >= 2 has returned 19 hexes or more, the center
\* among them.
C17_Witness ==
    /\ geoCalled("getHexesInRange") /\ geoN >= 2
    /\ Len(geoResult.value) >= 19
    /\ geoA \in Range(geoResult.value)

\* C18: getNeighbors(h) returns 6 pairwise distinct hexes at hexDistance 1 from
\* h in the order E, NE, NW, W, SW, SE; getNeighbor(h, d) is getNeighbors(h)[d]
\* for d in 0..5; isAdjacent(h, x) holds exactly for the x in getNeighbors(h).
C18_Neighbors ==
    /\ geoCalled("getNeighbors") =>
          /\ Len(geoResult.value) = 6
          /\ DistinctSeq(geoResult.value)
          /\ \A i \in 1..6 : hexDistanceSum(geoA, geoResult.value[i]) = 2
          /\ geoResult.value =
                << Hex(geoA.q + 1, geoA.r), Hex(geoA.q + 1, geoA.r - 1),
                   Hex(geoA.q, geoA.r - 1), Hex(geoA.q - 1, geoA.r),
                   Hex(geoA.q - 1, geoA.r + 1), Hex(geoA.q, geoA.r + 1) >>
    /\ geoCalled("getNeighbor") =>
          geoResult.value = getNeighbors(geoA)[geoResult.arg + 1]
    /\ geoCalled("isAdjacent") =>
          (geoResult.value <=> geoB \in Range(getNeighbors(geoA)))

\* C18 witness: isAdjacent has answered true for the Southwest neighbor.
C18_Witness ==
    /\ geoCalled("isAdjacent") /\ geoResult.value = TRUE
    /\ geoB = getNeighbor(geoA, 4)
    /\ geoB = Hex(geoA.q - 1, geoA.r + 1)

\* C23: getHexLine(start, end) is a contiguous line: hexDistance(start, end) + 1
\* hexes, the first start, the last end, every two consecutive ones adjacent.
C23_LineContiguous ==
    geoCalled("getHexLine") =>
        LET line == geoResult.value
        IN  /\ 2 * (Len(line) - 1) = hexDistanceSum(geoA, geoB)
            /\ line[1] = geoA
            /\ line[Len(line)] = geoB
            /\ \A i \in 1..(Len(line) - 1) : hexDistanceSum(line[i], line[i + 1]) = 2

\* C23 witness: a line of five hexes between hexes that differ in q and in r.
C23_Witness ==
    /\ geoCalled("getHexLine") /\ Len(geoResult.value) = 5
    /\ geoA.q # geoB.q /\ geoA.r # geoB.r
    /\ geoResult.value[1] = geoA /\ geoResult.value[5] = geoB

\* C19: hexDistance(a, b) = hexDistance(b, a), and hexDistance(a, a) = 0.
C19_DistanceSymmetric ==
    geoCalled("hexDistance") =>
        /\ geoResult.value = hexDistance(geoB, geoA)
        /\ geoA = geoB => geoResult.value = 0

\* C19 witness: a distance of 3 between hexes that differ in q and in r.
C19_Witness ==
    /\ geoCalled("hexDistance") /\ geoResult.value = 3
    /\ geoA.q # geoB.q /\ geoA.r # geoB.r
    /\ hexDistance(geoB, geoA) = 3

\* C20: hexDistance(a, b) is a non-negative integer: the sum
\* |aq-bq| + |aq+ar-bq-br| + |ar-br| is even, so halving it leaves no fraction.
C20_DistanceIsNatural ==
    geoCalled("hexDistance") =>
        /\ hexDistanceSum(geoA, geoB) % 2 = 0
        /\ geoResult.value = hexDistanceSum(geoA, geoB) \div 2
        /\ geoResult.value \in Nat

\* C20 witness: a distance between hexes whose q and r differences are both odd.
C20_Witness ==
    /\ geoCalled("hexDistance")
    /\ (geoA.q - geoB.q) % 2 = 1 /\ (geoA.r - geoB.r) % 2 = 1
    /\ geoResult.value \in Nat /\ geoResult.value > 0

\* C3: getHexRing(center, r) returns exactly the hexes at hexDistance r from
\* center, each once: <<center>> for r = 0 and 6*r hexes for r >= 1.
C3_RingIsDistanceR ==
    ringResult # Pending =>
        LET ring == ringResult.value
            span == (-ringRadius)..ringRadius
            atR  == {h \in {hexAdd(ringCenter, Hex(dq, dr)) : dq \in span, dr \in span} :
                        hexDistance(ringCenter, h) = ringRadius}
        IN  /\ Range(ring) = atR
            /\ DistinctSeq(ring)
            /\ Len(ring) = IF ringRadius = 0 THEN 1 ELSE 6 * ringRadius

\* C4: in an active scenario consumeElement(e) returns true and sets e to INERT
\* when e is STRONG or WANING; when e is INERT it returns false and changes no state.
C4_ConsumeContract ==
    [][\A e \in Elements :
          (scenario # Null /\ consumeElement(e)) =>
              IF scenario.elements[e] \in {STRONG, WANING}
              THEN /\ lastCall'.ret = TRUE
                   /\ scenario' = [scenario EXCEPT !.elements[e] = INERT]
                   /\ UNCHANGED <<gamePhase, characters>>
              ELSE /\ scenario.elements[e] = INERT
                   /\ lastCall'.ret = FALSE
                   /\ UNCHANGED <<gamePhase, scenario, characters>>]_vars

\* C4 witness: a WANING element has just been consumed and is INERT now.
C4_Witness ==
    /\ lastCall.op = "consumeElement" /\ lastCall.ret = TRUE
    /\ lastCall.before = WANING
    /\ scenario # Null /\ scenario.elements[lastCall.arg] = INERT

\* the claimed decay: one step down
OneStepDown(state) ==
    CASE state = STRONG -> WANING
      [] state = WANING -> INERT
      [] state = INERT  -> INERT

\* C5: after infuseElement(e), with no infuse or consume of e since, e is STRONG
\* before the first waneElements call, WANING after the first, INERT after the
\* second and after every further one; and each waneElements call moves every
\* element exactly one step down.
C5_DecaySequence ==
    /\ [](\A e \in DOMAIN sinceInfuse :
            /\ sinceInfuse[e] = 0 => scenario.elements[e] = STRONG
            /\ sinceInfuse[e] = 1 => scenario.elements[e] = WANING
            /\ sinceInfuse[e] >= 2 => scenario.elements[e] = INERT)
    /\ [][(scenario # Null /\ waneElements) =>
            \A e \in Elements :
                scenario'.elements[e] = OneStepDown(scenario.elements[e])]_vars

\* C5 witness: after a wane, one element has had two wanes since its infusion
\* (INERT) while another has had one (WANING).
C5_Witness ==
    /\ lastCall.op = "waneElements"
    /\ \E e1, e2 \in DOMAIN sinceInfuse :
          /\ sinceInfuse[e1] = 2 /\ scenario.elements[e1] = INERT
          /\ sinceInfuse[e2] = 1 /\ scenario.elements[e2] = WANING

\* C6: in an active scenario infuseElement(e) leaves e STRONG whatever its state
\* was (INERT, WANING or STRONG), and isElementAvailable(e) is true afterwards.
C6_InfuseSetsStrong ==
    (lastCall.op = "infuseElement" /\ scenario # Null) =>
        /\ lastCall.before \in {INERT, WANING, STRONG}
        /\ scenario.elements[lastCall.arg] = STRONG
        /\ isElementAvailable(lastCall.arg)

\* C6 witness: a WANING element has just been infused again.
C6_Witness ==
    /\ lastCall.op = "infuseElement" /\ lastCall.before = WANING
    /\ scenario # Null /\ scenario.elements[lastCall.arg] = STRONG

\* floor(L / 2) for the average L of the levels of the characters chars
halfAverageLevel(chars) ==
    LET total == sumSeq([i \in 1..Len(chars) |-> chars[i].level])
    IN  CHOOSE f \in 0..total :
            2 * f * Len(chars) <= total /\ total < 2 * (f + 1) * Len(chars)

\* C24: with L the average level of the party's characters, startScenario sets
\* the scenario level to floor(L / 2) + 2 for a party of exactly five members
\* and to floor(L / 2) for every other party size.
C24_FivePlayerScaling ==
    (lastCall.op = "startScenario" /\ partyCharacters(lastCall.arg[2]) # <<>>) =>
        scenario.level =
            halfAverageLevel(partyCharacters(lastCall.arg[2]))
            + (IF Len(lastCall.arg[2]) = 5 THEN 2 ELSE 0)

\* C24 witness: a party of five characters of unequal levels with average
\* level 5 has scenario level 4.
C24_Witness ==
    /\ lastCall.op = "startScenario" /\ Len(lastCall.arg[2]) = 5
    /\ Len(partyCharacters(lastCall.arg[2])) = 5
    /\ sumLevels(partyCharacters(lastCall.arg[2])) = 25
    /\ \E i \in 1..5 : characters[lastCall.arg[2][i]].level # 5
    /\ scenario.level = 4

\* C25: endRound in an active scenario adds exactly 1 to the round number, sets
\* the phase to CARD_SELECTION, empties the initiative order and moves each of
\* the six elements one step down (STRONG -> WANING -> INERT, INERT stays); no
\* other operation on a running scenario changes the round number.
C25_EndRound ==
    /\ [][(scenario # Null /\ endRound) =>
            scenario' = [scenario EXCEPT
                           !.round = scenario.round + 1,
                           !.phase = CARD_SELECTION,
                           !.initiative = <<>>,
                           !.elements = [e \in Elements |->
                                           OneStepDown(scenario.elements[e])]]]_vars
    /\ [][(/\ scenario # Null /\ scenario' # Null
           /\ lastCall'.op \notin {"endRound", "startScenario"})
              => scenario'.round = scenario.round]_vars

\* C25 witness: the first round has just ended: round 2, CARD_SELECTION, no
\* initiative order, and an element infused in round 1 is WANING.
C25_Witness ==
    /\ lastCall.op = "endRound" /\ scenario # Null
    /\ scenario.round = 2 /\ scenario.phase = CARD_SELECTION
    /\ scenario.initiative = <<>>
    /\ \E e \in DOMAIN sinceInfuse :
          sinceInfuse[e] = 1 /\ scenario.elements[e] = WANING

C27_TrackerPerScenario ==
    /\ lastCall.op = "startScenario" =>
          scenario # Null /\ \A e \in Elements : scenario.elements[e] = INERT
    /\ lastCall.op = "endScenario" =>
          \A e \in Elements : ~isElementAvailable(e)

\* C27 witness: a scenario was started over one whose fire was STRONG and whose
\* ice was WANING, and all elements are INERT.
C27_Witness ==
    /\ lastCall.op = "startScenario" /\ replaced # Null
    /\ replaced["fire"] = STRONG /\ replaced["ice"] = WANING
    /\ scenario # Null /\ \A e \in Elements : scenario.elements[e] = INERT

\* everything of the game state but the element tracker is unchanged
outsideTrackerUnchanged ==
    /\ IF scenario = Null THEN scenario' = Null
       ELSE scenario' # Null /\ scenario' = [scenario EXCEPT !.elements = scenario'.elements]
    /\ UNCHANGED <<gamePhase, characters, campaign, party>>

\* C28: infuseElement(e) and consumeElement(e) leave the five other elements
\* as they are, and infuseElement, consumeElement and waneElements leave
\* round, phase, initiative, board, characters and campaign as they are.
C28_ElementsIndependent ==
    /\ [][\A e \in Elements :
            (scenario # Null /\ (infuseElement(e) \/ consumeElement(e))) =>
                /\ \A x \in Elements \ {e} : scenario'.elements[x] = scenario.elements[x]
                /\ outsideTrackerUnchanged]_vars
    /\ [][waneElements => outsideTrackerUnchanged]_vars

\* C28 witness: fire was consumed in round 2 with an initiative order set,
\* while ice stays WANING.
C28_Witness ==
    /\ lastCall.op = "consumeElement" /\ lastCall.arg = "fire" /\ lastCall.ret = TRUE
    /\ scenario # Null
    /\ scenario.elements["fire"] = INERT /\ scenario.elements["ice"] = WANING
    /\ scenario.round >= 2 /\ scenario.initiative # <<>>
    /\ scenario.phase = ROUND_ACTIONS

\* C29: campaign.reputation and party.reputation start at 0 and stay within
\* -20..20 under updateReputation and updatePartyReputation with any changes,
\* each call setting the value to min(20, max(-20, old + change)).
C29_ReputationBounded ==
    /\ [](campaign.reputation \in -20..20 /\ party.reputation \in -20..20)
    /\ [][\A change \in Changes :
            /\ updateReputation(change) =>
                  campaign'.reputation = Min(20, Max(-20, campaign.reputation + change))
            /\ updatePartyReputation(change) =>
                  party'.reputation = Min(20, Max(-20, party.reputation + change))]_vars

\* C29 witness: the party reputation was cut off at -20 by a change of -41
\* while the campaign reputation stands at 20.
C29_Witness ==
    /\ lastCall.op = "updatePartyReputation" /\ lastCall.arg = -41
    /\ party.reputation = -20
    /\ campaign.reputation = 20

\* C30: campaign.prosperity starts at 1 and never drops below 1 under
\* updateProsperity with any changes, each call setting it to max(1, old + change).
C30_ProsperityAtLeastOne ==
    /\ [](campaign.prosperity >= 1)
    /\ [][\A change \in Changes :
            updateProsperity(change) =>
                campaign'.prosperity = Max(1, campaign.prosperity + change)]_vars

\* C30 witness: a change of -41 has just left the prosperity at 1.
C30_Witness ==
    /\ lastCall.op = "updateProsperity" /\ lastCall.arg = -41
    /\ campaign.prosperity = 1

\* the character carries an Immobilize condition
isImmobilized(character) ==
    \E i \in 1..Len(character.conditions) : character.conditions[i].type = IMMOBILIZE

\* the occupant of every hex of the running scenario
occupants == [k \in DOMAIN scenario.hexes |-> scenario.hexes[k].occupant]

\* C31: while a character carries an Immobilize condition, moveCharacter on it
\* is a no-op: the character's position and every hex's occupant stay as they are.
C31_ImmobilizedStays ==
    [][\A id \in CharIds, target \in MoveTargets :
          (/\ scenario # Null
           /\ hasCharacter(id)
           /\ isImmobilized(characters[id])
           /\ moveCharacter(id, target))
              => /\ characters'[id].position = characters[id].position
                 /\ occupants' = occupants]_vars

\* C33: in an active scenario, a hex names a character as its occupant exactly
\* if that character exists and its position is that hex.
C33_BoardMatchesFigures ==
    scenario # Null =>
        \A k \in DOMAIN scenario.hexes, c \in CharIds :
            (scenario.hexes[k].occupant = c)
                <=> (hasCharacter(c) /\ characters[c].position = keyToHex(k))

\* C34: in an active scenario with a non-empty initiative order, calling
\* nextTurn again and again ends the round: after MaxTurns calls (more than any
\* order has figures) the round phase is END_OF_ROUND.
C34_TurnsEndTheRound ==
    (/\ scenario # Null
     /\ Len(scenario.initiative) > 0
     /\ turnsTaken = MaxTurns)
        => scenario.phase = END_OF_ROUND

\* C35: in every state the store reaches, gamePhase is SCENARIO_PLAY exactly if
\* a scenario is active.
C35_PhaseMatchesScenario ==
    (gamePhase = SCENARIO_PLAY) <=> (scenario # Null)

\* C36: after every startScenario call, whatever ids the party lists (none,
\* or ids of no character), scenario.level is a non-negative integer.
C36_LevelIsNatural ==
    (scenario # Null /\ lastCall.op = "startScenario") => scenario.level \in Nat

\* the game state proper, without the record of the last call
gameState == <<gamePhase, scenario, characters, campaign, party>>

\* C37: without an active scenario, moveCharacter, updateScenarioPhase,
\* setInitiativeOrder, nextTurn, endRound, infuseElement and waneElements leave
\* the game state unchanged, consumeElement returns false and changes nothing,
\* and isElementAvailable returns false for every element; moveCharacter for
\* an unknown character id changes nothing either, with or without a scenario.
C37_NoScenarioNoOp ==
    [][/\ scenario = Null =>
            /\ \A id \in PartyIds, target \in MoveTargets :
                  moveCharacter(id, target) => UNCHANGED gameState
            /\ \A phase \in RoundPhases :
                  updateScenarioPhase(phase) => UNCHANGED gameState
            /\ \A order \in InitiativeOrders :
                  setInitiativeOrder(order) => UNCHANGED gameState
            /\ nextTurn => UNCHANGED gameState
            /\ endRound => UNCHANGED gameState
            /\ waneElements => UNCHANGED gameState
            /\ \A e \in Elements :
                  /\ infuseElement(e) => UNCHANGED gameState
                  /\ consumeElement(e) => (lastCall'.ret = FALSE /\ UNCHANGED gameState)
                  /\ isElementAvailableCall(e) =>
                        (lastCall'.ret = FALSE /\ UNCHANGED gameState)
                  /\ ~isElementAvailable(e)
       /\ \A id \in PartyIds \ DOMAIN characters, target \in MoveTargets :
             moveCharacter(id, target) => UNCHANGED gameState]_vars

\* C37 witness: after a scenario was played and ended, moveCharacter was called
\* for an existing character, which stays where the scenario had put it.
C37_Witness ==
    /\ scenario = Null
    /\ campaign.scenariosCompleted # {}
    /\ lastCall.op = "moveCharacter"
    /\ lastCall.arg[1] \in DOMAIN characters
    /\ characters[lastCall.arg[1]].position = Hex(0, 0)
    /\ lastCall.arg[2] = Hex(1, 0)

\* C38: line of sight is symmetric: for every board and all hexes a and b,
\* hasLineOfSight(a, b, board) equals hasLineOfSight(b, a, board).
C38_SightSymmetric ==
    (sightResult # Pending /\ sightResult.op = "hasLineOfSightBothWays") =>
        sightResult.value = sightResult.back

\* C39: a movement never ends on another figure: with ignoreFigures = false,
\* under every movement type, findPath returns no valid path to a goal other
\* than the start that has an occupant.
C39_NeverEndsOnFigure ==
    (/\ fpCalled
     /\ ~fpOptions.ignoreFigures
     /\ ~hexEquals(fpGoal, fpStart)
     /\ hexToKey(fpGoal) \in DOMAIN fpMap
     /\ fpMap[hexToKey(fpGoal)].occupant # Undefined)
        => ~fpResult.isValid

\* every parent pointer leads to a node with a lower g-score
parentsDescend(st) ==
    \A k \in DOMAIN st.cameFrom :
        mapGet(st.gScore, st.cameFrom[k], Infinity) < mapGet(st.gScore, k, Infinity)

\* the sum of the g-scores of the nodes S, Infinity for a node without one
RECURSIVE gSum(_, _)
gSum(S, gScore) ==
    IF S = {} THEN 0
    ELSE LET k == CHOOSE x \in S : TRUE
         IN  mapGet(gScore, k, Infinity) + gSum(S \ {k}, gScore)

\* from one loop iteration to the next: a node enters the open set only with a
\* g-score lower than it had, and either some g-score went down or the open
\* set lost a node
searchShrinks ==
    LET st    == fpSearch.st
        next  == fpSearch'.st
        nodes == DOMAIN fpMap \cup DOMAIN next.gScore
    IN  /\ \A k \in Range(next.openSet) \ Range(st.openSet) :
              next.gScore[k] < mapGet(st.gScore, k, Infinity)
        /\ \/ gSum(nodes, next.gScore) < gSum(nodes, st.gScore)
           \/ /\ gSum(nodes, next.gScore) = gSum(nodes, st.gScore)
              /\ Len(next.openSet) < Len(st.openSet)

\* the number of loop iterations a search over the board can take: every node
\* of the board and the start leave the open set at most once
searchBudget == Cardinality(DOMAIN fpMap \cup {hexToKey(fpStart)})

\* while the open set holds a node, the loop selects one of its nodes
selectsFromOpenSet(st) ==
    Len(st.openSet) > 0 =>
        lowestFNode(st.openSet, st.fScore, 1, <<>>, Infinity) \in Range(st.openSet)

\* C40: findPath terminates for every start, goal, board and options: the loop
\* selects a node of the open set and takes no more steps than there are nodes
\* before it returns (with the result findPath yields), because a node enters
\* the open set only when its g-score strictly decreases, each iteration lowers
\* a g-score or shrinks the open set, and the parent pointers, along which the
\* g-score falls, contain no cycle, so that the path repeats no hex.
C40_FindPathTerminates ==
    /\ [](fpSearch.pc = "loop" => selectsFromOpenSet(fpSearch.st))
    /\ [](fpSearch.pc # "idle" => fpSearch.steps <= searchBudget)
    /\ [](fpSearch.pc = "returned" =>
             /\ fpResult = findPath(fpStart, fpGoal, fpMap, fpOptions)
             /\ fpResult.isValid => DistinctSeq(fpResult.path))
    /\ [](fpSearch.pc # "idle" => parentsDescend(fpSearch.st))
    /\ [][(fpSearch.pc = "loop" /\ fpSearch'.pc = "loop") => searchShrinks]_vars

\* C40 witness: the goal lies within range but cannot be reached, and the
\* search returned after the open set ran empty over several iterations.
C40_Witness ==
    /\ fpSearch.pc = "returned"
    /\ hexDistance(fpStart, fpGoal) <= fpOptions.range
    /\ ~fpResult.isValid
    /\ Len(fpSearch.st.openSet) = 0
    /\ fpSearch.steps >= 4

\* C7: in an active scenario no two characters have the same position.
C7_OneFigurePerHex ==
    scenario # Null =>
        \A c1, c2 \in DOMAIN characters :
            (c1 # c2 /\ characters[c1].position # Null)
                => characters[c1].position # characters[c2].position

\* C8: moveCharacter to a coordinate that is not on the board changes neither
\* a character's position nor a hex's occupant.
C8_OffBoardMoveRejected ==
    [][\A id \in PartyIds, target \in MoveTargets :
          (/\ scenario # Null
           /\ hexToKey(target) \notin DOMAIN scenario.hexes
           /\ moveCharacter(id, target))
              => UNCHANGED <<characters, scenario>>]_vars

\* a Null or x2 card is among the cards
drewNullOrCritical(cards) ==
    \E i \in 1..Len(cards) : cards[i].value = "null" \/ cards[i].value = "2x"

\* the step is a call of drawSingleModifier
isDraw == drawing.pc = "drawing" /\ drawing.left > 0

\* the step ends a draw sequence
isCompletion == drawing.pc = "drawing" /\ drawing.left = 0 /\ drawing'.pc = "idle"

=============================================================================
